---- MODULE Spec2Model ----
(***************************************************************************)
(* A model of memcached-rs: the binary protocol driver (BinaryProto in     *)
(* src/src/proto/binary.rs) talking to a memcached server over one duplex  *)
(* stream, and the Client facade (src/src/client/mod.rs) that routes keys  *)
(* to drivers through a consistent-hash ring.                              *)
(*                                                                         *)
(* A driver operation is blocking and runs alone on its connection, so an  *)
(* operation is one action.  Inside the action the code's statements are   *)
(* applied in order to a connection state: write_to puts a request in the  *)
(* BufStream's write buffer, flush hands the buffered requests to the      *)
(* server, which handles them in order and appends its responses to the    *)
(* stream, and ResponsePacket::read_from takes the next response off the   *)
(* stream.  The events of the call (write, flush, read) are recorded in    *)
(* the order the code performs them.                                       *)
(*                                                                         *)
(* Bytes are the integers 0..255; keys, values and extras are sequences of *)
(* bytes.                                                                  *)
(***************************************************************************)
EXTENDS Integers, Sequences, FiniteSets, TLC

VARIABLES
    svrs,     \* the (address, weight) list the Client was built from
    store,    \* store[s][k]: <<>> or <<item>>, the server's item for key k
    casid,    \* casid[s]: the last version number server s handed out
    stream,   \* stream[s]: responses sent on the connection to s, not yet read
    closed,   \* closed[s]: the server closed the connection (after Quit)
    reqs,     \* number of requests written so far (numbers the requests)
    last,     \* record of the most recent operation (history)
    tok,      \* tok[k]: token the latest successful write to k returned, 0 if it returned none (history)
    failed,   \* failed[k]: a CAS write to k has failed since tok[k] was returned (history)
    nops      \* number of operations performed

vars == <<svrs, store, casid, stream, closed, reqs, last, tok, failed, nops>>

-----------------------------------------------------------------------------
(* Bounds of the model *)

MaxOps == 3

-----------------------------------------------------------------------------
(* Bytes and the byteorder crate's big-endian integers *)

U32BE(n) ==
    << (n \div 16777216) % 256, (n \div 65536) % 256, (n \div 256) % 256, n % 256 >>

\* n modulo 2^32 (the product is written out: the checker's integers are 32 bits wide)
AsU32(n) == n - ((n \div 65536) \div 65536) * 65536 * 65536

U64BE(n) ==
    U32BE((n \div 65536) \div 65536) \o U32BE(AsU32(n))

ReadU32BE(b) ==
    b[1] * 16777216 + b[2] * 65536 + b[3] * 256 + b[4]

ReadU64BE(b) ==
    ReadU32BE(SubSeq(b, 1, 4)) * 65536 * 65536 + ReadU32BE(SubSeq(b, 5, 8))

\* ASCII decimal, as the server stores counters
Digit(d) == 48 + d

FormatDec(n) ==
    IF n < 10 THEN << Digit(n) >>
    ELSE IF n < 100 THEN << Digit(n \div 10), Digit(n % 10) >>
    ELSE << Digit((n \div 100) % 10), Digit((n \div 10) % 10), Digit(n % 10) >>

IsDec(b) ==
    /\ Len(b) \in 1..3
    /\ \A i \in 1..Len(b) : b[i] \in 48..57

RECURSIVE ParseDec(_)
ParseDec(b) ==
    IF b = <<>> THEN 0
    ELSE 10 * ParseDec(SubSeq(b, 1, Len(b) - 1)) + (b[Len(b)] - 48)

-----------------------------------------------------------------------------
(* Input domains *)

K1 == <<107, 49>>
K2 == <<107, 50>>
Keys == {K1, K2}

\* "a" with flags 1, and the counter "5" with flags 2
Payloads == { [value |-> <<97>>, flags |-> 1], [value |-> <<53>>, flags |-> 2] }

Expirations == {120}
Amounts == {3}
Initials == {9}

Addrs == {"s1", "s2"}

-----------------------------------------------------------------------------
(* Command and Status (src/src/proto/binarydef.rs) *)

QuietCommands ==
    { "GetQuietly", "GetKeyQuietly", "SetQuietly", "AddQuietly", "ReplaceQuietly",
      "DeleteQuietly", "IncrementQuietly", "DecrementQuietly", "AppendQuietly",
      "PrependQuietly" }

\* the command a quiet command is the quiet variant of
BaseCommand(cmd) ==
    CASE cmd = "GetQuietly" -> "Get"
      [] cmd = "GetKeyQuietly" -> "GetKey"
      [] cmd = "SetQuietly" -> "Set"
      [] cmd = "AddQuietly" -> "Add"
      [] cmd = "ReplaceQuietly" -> "Replace"
      [] cmd = "DeleteQuietly" -> "Delete"
      [] cmd = "IncrementQuietly" -> "Increment"
      [] cmd = "DecrementQuietly" -> "Decrement"
      [] cmd = "AppendQuietly" -> "Append"
      [] cmd = "PrependQuietly" -> "Prepend"
      [] OTHER -> cmd

-----------------------------------------------------------------------------
(* Requests (src/src/proto/binarydef.rs) *)

\* RequestHeader::new: the caller supplies every field, the lengths included
RequestHeader_new(cmd, dtype, vbid, opaque, cas, key_len, extra_len, body_len) ==
    [ command    |-> cmd,
      key_len    |-> key_len,
      extra_len  |-> extra_len,
      data_type  |-> dtype,
      vbucket_id |-> vbid,
      body_len   |-> body_len,
      opaque     |-> opaque,
      cas        |-> cas ]

\* RequestHeader::from_payload: the length fields are computed from the slices,
\* each cast to the width of its field (as u16, as u8, as u32)
from_payload(cmd, dtype, vbid, opaque, cas, key, extra, value) ==
    RequestHeader_new(cmd, dtype, vbid, opaque, cas,
                      Len(key) % 65536,
                      Len(extra) % 256,
                      AsU32(Len(key) + Len(extra) + Len(value)))

\* RequestPacketRef::new: the header with the three segments
RequestPacketRef(header, extra, key, value) ==
    [ header |-> header, extra |-> extra, key |-> key, value |-> value ]

\* the request a driver operation writes: header from the payload, then the payload
Request(cmd, opaque, cas, key, extra, value) ==
    RequestPacketRef(from_payload(cmd, "RawBytes", 0, opaque, cas, key, extra, value),
                     extra, key, value)

\* the extras of set/add/replace: flags then expiration
\* store extras with the expiration ahead of the flags
StoreExtrasExpirationFirst(flags, expiration) == U32BE(expiration) \o U32BE(flags)
StoreExtras(flags, expiration) == U32BE(flags) \o U32BE(expiration)

\* counter extras with the initial value ahead of the amount
CounterExtrasInitialFirst(amount, initial, expiration) ==
    U64BE(initial) \o U64BE(amount) \o U32BE(expiration)

\* the extras of increment/decrement: amount, initial, expiration
CounterExtras(amount, initial, expiration) ==
    U64BE(amount) \o U64BE(initial) \o U32BE(expiration)

-----------------------------------------------------------------------------
(* The memcached server, as the binary protocol defines it.  The server is *)
(* not part of the repository; its behaviour is what the driver's tests    *)
(* expect of it and what the specification says of quiet commands and of   *)
(* version tokens.                                                         *)

NoItem == <<>>
Item(value, flags, cas) == << [value |-> value, flags |-> flags, cas |-> cas] >>

ErrorText == <<69>>

\* the server splits the body by the header's length fields
Body(rq) == rq.extra \o rq.key \o rq.value
ReqExtra(rq) == SubSeq(Body(rq), 1, rq.header.extra_len)
ReqKey(rq) == SubSeq(Body(rq), rq.header.extra_len + 1, rq.header.extra_len + rq.header.key_len)
ReqValue(rq) == SubSeq(Body(rq), rq.header.extra_len + rq.header.key_len + 1, Len(Body(rq)))

\* a response echoes the request's opcode and opaque; rid and by are history
\* fields naming the request answered and the kind of call that wrote it
Reply(rq, status, cas, extra, key, value) ==
    [ command |-> rq.header.command, status |-> status, opaque |-> rq.header.opaque,
      cas |-> cas, extra |-> extra, key |-> key, value |-> value,
      rid |-> rq.rid, by |-> rq.by ]

\* a quiet command is answered only when it fails; a quiet get only when it hits
Suppressed(cmd, status) ==
    IF cmd \in {"GetQuietly", "GetKeyQuietly"}
    THEN status = "KeyNotFound"
    ELSE cmd \in QuietCommands /\ status = "NoError"

\* the version check of a write carrying a token: 0 is "no check"
CasMismatch(cur, cas) == cas # 0 /\ cur # NoItem /\ cur[1].cas # cas

Refuse(cur, casnow, status) ==
    [ status |-> status, item |-> cur, casid |-> casnow, rcas |-> 0,
      extra |-> <<>>, key |-> <<>>, value |-> ErrorText ]

Stored(casnow, value, flags, rvalue) ==
    [ status |-> "NoError", item |-> Item(value, flags, casnow + 1), casid |-> casnow + 1,
      rcas |-> casnow + 1, extra |-> <<>>, key |-> <<>>, value |-> rvalue ]

\* what the server does with one keyed request, given the key's item
Outcome(cur, casnow, rq) ==
    LET cmd   == BaseCommand(rq.header.command)
        cas   == rq.header.cas
        extra == ReqExtra(rq)
        value == ReqValue(rq)
    IN  CASE cmd \in {"Get", "GetKey"} ->
               IF cur = NoItem THEN Refuse(cur, casnow, "KeyNotFound")
               ELSE [ status |-> "NoError", item |-> cur, casid |-> casnow, rcas |-> cur[1].cas,
                      extra |-> U32BE(cur[1].flags),
                      key |-> IF cmd = "GetKey" THEN ReqKey(rq) ELSE <<>>,
                      value |-> cur[1].value ]
          [] cmd = "Set" ->
               IF cas # 0 /\ cur = NoItem THEN Refuse(cur, casnow, "KeyNotFound")
               ELSE IF CasMismatch(cur, cas) THEN Refuse(cur, casnow, "KeyExists")
               ELSE Stored(casnow, value, ReadU32BE(extra), <<>>)
          [] cmd = "Add" ->
               IF cur # NoItem THEN Refuse(cur, casnow, "KeyExists")
               ELSE Stored(casnow, value, ReadU32BE(extra), <<>>)
          [] cmd = "Replace" ->
               IF cur = NoItem THEN Refuse(cur, casnow, "KeyNotFound")
               ELSE IF CasMismatch(cur, cas) THEN Refuse(cur, casnow, "KeyExists")
               ELSE Stored(casnow, value, ReadU32BE(extra), <<>>)
          [] cmd = "Delete" ->
               IF cur = NoItem THEN Refuse(cur, casnow, "KeyNotFound")
               ELSE IF CasMismatch(cur, cas) THEN Refuse(cur, casnow, "KeyExists")
               ELSE [ status |-> "NoError", item |-> NoItem, casid |-> casnow, rcas |-> 0,
                      extra |-> <<>>, key |-> <<>>, value |-> <<>> ]
          [] cmd \in {"Increment", "Decrement"} ->
               LET amount  == ReadU64BE(SubSeq(extra, 1, 8))
                   initial == ReadU64BE(SubSeq(extra, 9, 16))
               IN  IF cur = NoItem
                   THEN Stored(casnow, FormatDec(initial), 0, U64BE(initial))
                   ELSE IF CasMismatch(cur, cas) THEN Refuse(cur, casnow, "KeyExists")
                   ELSE IF ~IsDec(cur[1].value)
                   THEN Refuse(cur, casnow, "IncrDecrOnNonNumericValue")
                   ELSE LET v == ParseDec(cur[1].value)
                            n == IF cmd = "Increment" THEN v + amount
                                 ELSE IF amount > v THEN 0 ELSE v - amount
                        IN  Stored(casnow, FormatDec(n), cur[1].flags, U64BE(n))
          [] cmd \in {"Append", "Prepend"} ->
               IF cur = NoItem THEN Refuse(cur, casnow, "ItemNotStored")
               ELSE IF CasMismatch(cur, cas) THEN Refuse(cur, casnow, "KeyExists")
               ELSE Stored(casnow,
                           IF cmd = "Append" THEN cur[1].value \o value ELSE value \o cur[1].value,
                           cur[1].flags, <<>>)
          [] cmd = "Touch" ->
               IF cur = NoItem THEN Refuse(cur, casnow, "KeyNotFound")
               ELSE IF CasMismatch(cur, cas) THEN Refuse(cur, casnow, "KeyExists")
               ELSE [ status |-> "NoError", item |-> cur, casid |-> casnow, rcas |-> cur[1].cas,
                      extra |-> <<>>, key |-> <<>>, value |-> <<>> ]

\* the statistics the server reports: one entry, then the empty terminator
StatEntries == << [key |-> <<112>>, value |-> <<49>>] >>

\* what the server sends for a stat request: one response for each statistic
\* it keeps, then one with no key and no value
StatLine(status, key, value) == [status |-> status, key |-> key, value |-> value]

StatReplies ==
    [i \in 1..Len(StatEntries) |-> StatLine("NoError", StatEntries[i].key, StatEntries[i].value)]
        \o << StatLine("NoError", <<>>, <<>>) >>

\* SASL at the server: the mechanism is the key of the request, the data its
\* value.  PLAIN is settled in one step; CHALLENGE answers the first step with
\* a challenge and settles the next; any other mechanism is not supported
PLAIN == <<80>>
CHALLENGE == <<67>>
OTHER_MECH == <<88>>
\* the PLAIN message NUL "u" NUL "p" is accepted, NUL "u" NUL "x" is not
GoodData == <<0, 117, 0, 112>>
BadData == <<0, 117, 0, 120>>
Challenge == <<63>>

SaslReply(rq) ==
    LET mech == ReqKey(rq)
        data == ReqValue(rq)
        cmd  == rq.header.command
        status ==
            IF mech \notin {PLAIN, CHALLENGE} THEN "NotSupported"
            ELSE IF mech = CHALLENGE /\ cmd = "SaslAuthenticate"
            THEN "AuthenticationFurtherStepRequired"
            ELSE IF mech = PLAIN /\ cmd = "SaslStep" THEN "InvalidArguments"
            ELSE IF data = GoodData THEN "NoError"
            ELSE "AuthenticationRequired"
    IN  Reply(rq, status, 0, <<>>, <<>>,
              IF status = "AuthenticationFurtherStepRequired" THEN Challenge
              ELSE IF status = "NoError" THEN <<>>
              ELSE ErrorText)

\* how a server is set up for SASL: "plain" as above; "stepwise" asks for a
\* further step whatever the mechanism; "off" knows no SASL command
SaslModes == {"plain", "stepwise", "off"}

SaslReplyOf(mode, rq) ==
    IF mode = "off" THEN Reply(rq, "UnknownCommand", 0, <<>>, <<>>, ErrorText)
    ELSE IF mode = "stepwise" /\ rq.header.command = "SaslAuthenticate"
    THEN Reply(rq, "AuthenticationFurtherStepRequired", 0, <<>>, <<>>, Challenge)
    ELSE SaslReply(rq)

\* the server handles one request: sv is [store, casid, stream, closed, stats,
\* sasl], stats being what it has to say to a stat request at the time and
\* sasl its SASL set-up.  It answers Quit and closes the connection; what
\* reaches it later is lost
ServerHandle(sv, rq) ==
    LET cmd == rq.header.command
    IN  IF sv.closed THEN sv
        ELSE IF cmd = "Quit"
        THEN [sv EXCEPT !.stream = Append(@, Reply(rq, "NoError", 0, <<>>, <<>>, <<>>)),
                        !.closed = TRUE]
        ELSE IF cmd = "Noop"
        THEN [sv EXCEPT !.stream = Append(@, Reply(rq, "NoError", 0, <<>>, <<>>, <<>>))]
        ELSE IF cmd = "Stat"
        THEN [sv EXCEPT !.stream = @ \o
                 [i \in 1..Len(sv.stats) |->
                     Reply(rq, sv.stats[i].status, 0, <<>>, sv.stats[i].key,
                           sv.stats[i].value)]]
        ELSE IF cmd \in {"SaslAuthenticate", "SaslStep"}
        THEN [sv EXCEPT !.stream = Append(@, SaslReplyOf(sv.sasl, rq))]
        ELSE LET Apply(key, out) ==
                     [sv EXCEPT !.store = [@ EXCEPT ![key] = out.item],
                                !.casid = out.casid,
                                !.stream = IF Suppressed(cmd, out.status) THEN @
                                           ELSE Append(@, Reply(rq, out.status, out.rcas,
                                                                out.extra, out.key, out.value))]
             IN  Apply(ReqKey(rq), Outcome(sv.store[ReqKey(rq)], sv.casid, rq))

RECURSIVE ServerHandleAll(_, _)
ServerHandleAll(sv, rqs) ==
    IF rqs = <<>> THEN sv
    ELSE ServerHandleAll(ServerHandle(sv, Head(rqs)), Tail(rqs))

-----------------------------------------------------------------------------
(* The connection state a driver operation works on:                       *)
(*   store, casid, stream, closed  the server's side and the unread stream *)
(*   wbuf     requests written and not yet flushed                         *)
(*   reqs     number of requests written so far                            *)
(*   by       the kind of the running call (history)                       *)
(*   ev       the call's events, in order (history)                        *)
(*   written  the requests the call wrote (history)                        *)
(*   avail    the stream as it was after the call's last flush (history)   *)
(*   got      the responses the call read (history)                        *)

\* RequestPacketRef::write_to on the BufStream: the request is buffered
write_to(st, req) ==
    [st EXCEPT !.wbuf = Append(@, [header |-> req.header, extra |-> req.extra, key |-> req.key,
                                   value |-> req.value, rid |-> st.reqs + 1, by |-> st.by]),
               !.reqs = @ + 1,
               !.ev = Append(@, "write"),
               !.written = Append(@, req)]

\* stream.flush(): the buffered requests reach the server, which answers in order
stream_flush(st) ==
    LET Answered(sv) ==
            [st EXCEPT !.store = sv.store, !.casid = sv.casid, !.stream = sv.stream,
                       !.closed = sv.closed, !.wbuf = <<>>, !.ev = Append(@, "flush"),
                       !.avail = sv.stream]
    IN  Answered(ServerHandleAll([store |-> st.store, casid |-> st.casid,
                                  stream |-> st.stream, closed |-> st.closed,
                                  stats |-> st.stats, sasl |-> st.sasl], st.wbuf))

\* ResponsePacket::read_from: takes the next response off the stream
read_from(st) ==
    [st EXCEPT !.stream = Tail(@), !.got = Append(@, Head(st.stream)),
               !.ev = Append(@, "read")]

NoResponse ==
    [ command |-> "none", status |-> "none", opaque |-> 0, cas |-> 0, extra |-> <<>>,
      key |-> <<>>, value |-> <<>>, rid |-> 0, by |-> "none" ]

\* a read that waits for a response whether or not the stream is closed
Waiting(st) == "blocked"

\* a read with nothing to read: an I/O error on a closed stream, else it blocks
Starved(st) == IF st.closed THEN "io" ELSE "blocked"

\* a driver without the opaque loop: the next response is the answer
read_next(st, opaque) ==
    IF st.stream = <<>> THEN [st |-> st, state |-> Starved(st), resp |-> NoResponse]
    ELSE [st |-> read_from(st), state |-> "ok", resp |-> Head(st.stream)]

\* let mut resp = read_from()?; while resp.header.opaque != opaque { resp = read_from()? }
RECURSIVE read_until_opaque(_, _)
read_until_opaque(st, opaque) ==
    IF st.stream = <<>> THEN [st |-> st, state |-> Starved(st), resp |-> NoResponse]
    ELSE LET resp == Head(st.stream)
             st1  == read_from(st)
         IN  IF resp.opaque # opaque THEN read_until_opaque(st1, opaque)
             ELSE [st |-> st1, state |-> "ok", resp |-> resp]

\* a driver that takes the response that follows its request for the answer
roundtrip_next(st, req) ==
    read_next(stream_flush(write_to(st, req)), req.header.opaque)

\* write the request, flush, read the response with the request's opaque
roundtrip(st, req) ==
    read_until_opaque(stream_flush(write_to(st, req)), req.header.opaque)

-----------------------------------------------------------------------------
(* Results: MemCachedResult<T> *)

Ok(v) == [tag |-> "Ok", status |-> "NoError", detail |-> <<>>, val |-> v]

\* Error::from_status(status, detail); detail None is <<>>, Some(d) is <<d>>
from_status(status, detail) ==
    [tag |-> "Err", status |-> status, detail |-> detail, val |-> <<>>]

\* an io::Error, or no return at all
NoReturn(state) == [tag |-> state, status |-> "none", detail |-> <<>>, val |-> <<>>]

\* the result of a call after its read loop rd, res being the match on the status
Return(rd, res) ==
    [st |-> rd.st, result |-> IF rd.state = "ok" THEN res ELSE NoReturn(rd.state)]

\* match resp.header.status { NoError => Ok(()), _ => Err(from_status(status, None)) }
unit_result(resp) ==
    IF resp.status = "NoError" THEN Ok(<<>>) ELSE from_status(resp.status, <<>>)


\* an io::Error read_u32/read_u64 raises on a buffer that is too short
UnexpectedEof == [tag |-> "io", status |-> "none", detail |-> <<>>, val |-> <<>>]

\* proto::Error::OtherError { desc, detail: None }
OtherError(desc) == [tag |-> "Other", status |-> "none", detail |-> <<>>, val |-> desc]

-----------------------------------------------------------------------------
(* impl Operation for BinaryProto.  The opaque the code draws with         *)
(* fastrand::u32(..) is the last parameter of each operator.               *)

set(st, key, value, flags, expiration, opaque) ==
    LET extra == StoreExtras(flags, expiration)
        rd    == roundtrip(st, Request("Set", opaque, 0, key, extra, value))
    IN  Return(rd, unit_result(rd.resp))

add(st, key, value, flags, expiration, opaque) ==
    LET extra == StoreExtras(flags, expiration)
        rd    == roundtrip(st, Request("Add", opaque, 0, key, extra, value))
    IN  Return(rd, unit_result(rd.resp))

delete(st, key, opaque) ==
    LET rd == roundtrip(st, Request("Delete", opaque, 0, key, <<>>, <<>>))
    IN  Return(rd, unit_result(rd.resp))

replace(st, key, value, flags, expiration, opaque) ==
    LET extra == StoreExtras(flags, expiration)
        rd    == roundtrip(st, Request("Replace", opaque, 0, key, extra, value))
    IN  Return(rd, unit_result(rd.resp))

get(st, key, opaque) ==
    LET rd == roundtrip(st, Request("Get", opaque, 0, key, <<>>, <<>>))
    IN  Return(rd, IF rd.resp.status = "NoError"
                   THEN IF Len(rd.resp.extra) < 4 THEN UnexpectedEof
                        ELSE Ok([value |-> rd.resp.value,
                                 flags |-> ReadU32BE(rd.resp.extra)])
                   ELSE from_status(rd.resp.status, <<>>))

getk(st, key, opaque) ==
    LET rd == roundtrip(st, Request("GetKey", opaque, 0, key, <<>>, <<>>))
    IN  Return(rd, IF rd.resp.status = "NoError"
                   THEN IF Len(rd.resp.extra) < 4 THEN UnexpectedEof
                        ELSE Ok([key |-> rd.resp.key, value |-> rd.resp.value,
                                 flags |-> ReadU32BE(rd.resp.extra)])
                   ELSE from_status(rd.resp.status, <<>>))

\* an increment whose request carries the Decrement opcode
increment_by_decrement(st, key, amount, initial, expiration, opaque) ==
    LET extra == CounterExtras(amount, initial, expiration)
        rd    == roundtrip(st, Request("Decrement", opaque, 0, key, extra, <<>>))
    IN  Return(rd, IF rd.resp.status = "NoError"
                   THEN IF Len(rd.resp.value) < 8 THEN UnexpectedEof
                        ELSE Ok(ReadU64BE(rd.resp.value))
                   ELSE from_status(rd.resp.status, <<>>))

increment(st, key, amount, initial, expiration, opaque) ==
    LET extra == CounterExtras(amount, initial, expiration)
        rd    == roundtrip(st, Request("Increment", opaque, 0, key, extra, <<>>))
    IN  Return(rd, IF rd.resp.status = "NoError"
                   THEN IF Len(rd.resp.value) < 8 THEN UnexpectedEof
                        ELSE Ok(ReadU64BE(rd.resp.value))
                   ELSE from_status(rd.resp.status, <<>>))

decrement(st, key, amount, initial, expiration, opaque) ==
    LET extra == CounterExtras(amount, initial, expiration)
        rd    == roundtrip(st, Request("Decrement", opaque, 0, key, extra, <<>>))
    IN  Return(rd, IF rd.resp.status = "NoError"
                   THEN IF Len(rd.resp.value) < 8 THEN UnexpectedEof
                        ELSE Ok(ReadU64BE(rd.resp.value))
                   ELSE from_status(rd.resp.status, <<>>))

append(st, key, value, opaque) ==
    LET rd == roundtrip(st, Request("Append", opaque, 0, key, <<>>, value))
    IN  Return(rd, unit_result(rd.resp))

prepend(st, key, value, opaque) ==
    LET rd == roundtrip(st, Request("Prepend", opaque, 0, key, <<>>, value))
    IN  Return(rd, unit_result(rd.resp))

touch(st, key, expiration, opaque) ==
    LET extra == U32BE(expiration)
        rd    == roundtrip(st, Request("Touch", opaque, 0, key, extra, <<>>))
    IN  Return(rd, unit_result(rd.resp))

-----------------------------------------------------------------------------
(* impl ServerOperation for BinaryProto *)

\* BinaryProto::send_noop: writes a Noop with a drawn opaque and flushes
send_noop(st, opaque) ==
    stream_flush(write_to(st, Request("Noop", opaque, 0, <<>>, <<>>, <<>>)))

\* a noop that takes the response that follows its request for the answer
noop_next(st, opaque) ==
    LET rd == read_next(send_noop(st, opaque), opaque)
    IN  Return(rd, unit_result(rd.resp))

noop(st, opaque) ==
    LET rd == read_until_opaque(send_noop(st, opaque), opaque)
    IN  Return(rd, unit_result(rd.resp))

quit(st, opaque) ==
    LET rd == roundtrip(st, Request("Quit", opaque, 0, <<>>, <<>>, <<>>))
    IN  Return(rd, unit_result(rd.resp))

\* AuthResponse
Continue(data) == [auth |-> "Continue", data |-> data]
Succeeded == [auth |-> "Succeeded", data |-> <<>>]
Failed == [auth |-> "Failed", data |-> <<>>]

\* a match that takes AuthenticationRequired for an error like any other
auth_result_strict(resp) ==
    IF resp.status = "AuthenticationFurtherStepRequired" THEN Ok(Continue(resp.value))
    ELSE IF resp.status = "NoError" THEN Ok(Succeeded)
    ELSE from_status(resp.status, <<>>)

\* the match on the status that ends auth_start and auth_continue
auth_result(resp) ==
    IF resp.status = "AuthenticationFurtherStepRequired" THEN Ok(Continue(resp.value))
    ELSE IF resp.status = "NoError" THEN Ok(Succeeded)
    ELSE IF resp.status = "AuthenticationRequired" THEN Ok(Failed)
    ELSE from_status(resp.status, <<>>)

auth_start(st, mech, init, opaque) ==
    LET rd == roundtrip(st, Request("SaslAuthenticate", opaque, 0, mech, <<>>, init))
    IN  Return(rd, auth_result(rd.resp))

auth_continue(st, mech, data, opaque) ==
    LET rd == roundtrip(st, Request("SaslStep", opaque, 0, mech, <<>>, data))
    IN  Return(rd, auth_result(rd.resp))

\* String::from_utf8 accepts the bytes (ASCII is all the model's server sends)
IsUtf8(b) == \A i \in 1..Len(b) : b[i] < 128

\* a loop that stops at the first response without a key, whatever its value
RECURSIVE stat_loop_keyed(_, _, _)
stat_loop_keyed(st, opaque, result) ==
    IF st.stream = <<>> THEN [st |-> st, result |-> NoReturn(Starved(st))]
    ELSE LET resp == Head(st.stream)
             st1  == read_from(st)
         IN  IF resp.opaque # opaque THEN stat_loop_keyed(st1, opaque, result)
             ELSE IF resp.status # "NoError"
             THEN [st |-> st1, result |-> from_status(resp.status, <<>>)]
             ELSE IF resp.key = <<>>
             THEN [st |-> st1, result |-> Ok(result)]
             ELSE stat_loop_keyed(st1, opaque,
                                  {e \in result : e.key # resp.key}
                                      \cup {[key |-> resp.key, value |-> resp.value]})

\* the loop of stat: result is the map built so far, as a set of entries
RECURSIVE stat_loop(_, _, _)
stat_loop(st, opaque, result) ==
    IF st.stream = <<>> THEN [st |-> st, result |-> NoReturn(Starved(st))]
    ELSE LET resp == Head(st.stream)
             st1  == read_from(st)
         IN  IF resp.opaque # opaque THEN stat_loop(st1, opaque, result)
             ELSE IF resp.status # "NoError"
             THEN [st |-> st1, result |-> from_status(resp.status, <<>>)]
             ELSE IF resp.key = <<>> /\ resp.value = <<>>
             THEN [st |-> st1, result |-> Ok(result)]
             ELSE IF ~IsUtf8(resp.key)
             THEN [st |-> st1, result |-> OtherError("Key is not a string")]
             ELSE IF ~IsUtf8(resp.value)
             THEN [st |-> st1, result |-> OtherError("Value is not a string")]
             ELSE stat_loop(st1, opaque,
                            {e \in result : e.key # resp.key}
                                \cup {[key |-> resp.key, value |-> resp.value]})

stat(st, opaque) ==
    LET req == RequestPacketRef(RequestHeader_new("Stat", "RawBytes", 0, opaque, 0, 0, 0, 0),
                                <<>>, <<>>, <<>>)
    IN  stat_loop(stream_flush(write_to(st, req)), opaque, {})


-----------------------------------------------------------------------------
(* impl MultiOperation for BinaryProto *)

\* the order of &[u8] keys in a BTreeMap: lexicographic
KeyLess(a, b) ==
    \/ \E i \in 1..Len(a) : /\ i <= Len(b)
                            /\ a[i] < b[i]
                            /\ \A j \in 1..(i - 1) : a[j] = b[j]
    \/ Len(a) < Len(b) /\ \A j \in 1..Len(a) : a[j] = b[j]

RECURSIVE into_iter(_)
into_iter(S) ==
    IF S = {} THEN <<>>
    ELSE LET k == CHOOSE x \in S : \A y \in S \ {x} : KeyLess(x, y)
         IN  <<k>> \o into_iter(S \ {k})

\* HashMap: a function on the keys inserted; insert overwrites
EmptyMap == [x \in {} |-> x]
insert(m, k, v) == [x \in DOMAIN m \cup {k} |-> IF x = k THEN v ELSE m[x]]

\* a driver that does not pipeline: each request is flushed and its answer, if
\* there is one, read before the next request is written
RECURSIVE write_and_wait(_, _)
write_and_wait(st, rqs) ==
    IF rqs = <<>> THEN st
    ELSE LET st1 == stream_flush(write_to(st, Head(rqs)))
         IN  write_and_wait(IF st1.stream = <<>> THEN st1 ELSE read_from(st1), Tail(rqs))

\* the for loop of a multi-key operation: one write_to per request, no flush
RECURSIVE write_each(_, _)
write_each(st, rqs) ==
    IF rqs = <<>> THEN st
    ELSE write_each(write_to(st, Head(rqs)), Tail(rqs))

RECURSIVE set_multi_loop(_)
set_multi_loop(st) ==
    IF st.stream = <<>> THEN [st |-> st, result |-> NoReturn(Starved(st))]
    ELSE LET resp == Head(st.stream)
             st1  == read_from(st)
         IN  IF resp.status # "NoError"
             THEN [st |-> st1, result |-> from_status(resp.status, <<>>)]
             ELSE IF resp.command = "Noop" THEN [st |-> st1, result |-> Ok(<<>>)]
             ELSE set_multi_loop(st1)

\* kv: a BTreeMap from key to (value, flags, expiration)
set_multi(st, kv, opaque) ==
    LET keys == into_iter(DOMAIN kv)
        rqs  == [i \in 1..Len(keys) |->
                    Request("SetQuietly", 0, 0, keys[i],
                            StoreExtras(kv[keys[i]].flags, kv[keys[i]].expiration),
                            kv[keys[i]].value)]
    IN  set_multi_loop(send_noop(write_each(st, rqs), opaque))

\* a delete loop as strict as the loop of set_multi
delete_multi_strict(st) == set_multi_loop(st)

RECURSIVE delete_multi_loop(_)
delete_multi_loop(st) ==
    IF st.stream = <<>> THEN [st |-> st, result |-> NoReturn(Starved(st))]
    ELSE LET resp == Head(st.stream)
             st1  == read_from(st)
         IN  IF resp.status \notin {"NoError", "KeyNotFound"}
             THEN [st |-> st1, result |-> from_status(resp.status, <<>>)]
             ELSE IF resp.command = "Noop" THEN [st |-> st1, result |-> Ok(<<>>)]
             ELSE delete_multi_loop(st1)

\* keys: a slice of keys
delete_multi(st, keys, opaque) ==
    LET rqs == [i \in 1..Len(keys) |->
                   Request("DeleteQuietly", 0, 0, keys[i], <<>>, <<>>)]
    IN  delete_multi_loop(send_noop(write_each(st, rqs), opaque))

\* a lenient loop: a failed request ends the batch with what was accumulated
RECURSIVE increment_multi_partial(_, _, _)
increment_multi_partial(st, opaques, results) ==
    IF st.stream = <<>> THEN [st |-> st, result |-> NoReturn(Starved(st))]
    ELSE LET resp == Head(st.stream)
             st1  == read_from(st)
         IN  IF resp.status # "NoError" \/ resp.command = "Noop"
             THEN [st |-> st1, result |-> Ok(results)]
             ELSE IF resp.opaque \notin DOMAIN opaques \/ Len(resp.value) < 8
             THEN increment_multi_partial(st1, opaques, results)
             ELSE increment_multi_partial(st1, opaques,
                      insert(results, opaques[resp.opaque], ReadU64BE(resp.value)))

RECURSIVE increment_multi_loop(_, _, _)
increment_multi_loop(st, opaques, results) ==
    IF st.stream = <<>> THEN [st |-> st, result |-> NoReturn(Starved(st))]
    ELSE LET resp == Head(st.stream)
             st1  == read_from(st)
         IN  IF resp.status # "NoError"
             THEN [st |-> st1, result |-> from_status(resp.status, <<>>)]
             ELSE IF resp.command = "Noop" THEN [st |-> st1, result |-> Ok(results)]
             ELSE IF resp.opaque \notin DOMAIN opaques
             THEN increment_multi_loop(st1, opaques, results)
             ELSE IF Len(resp.value) < 8 THEN [st |-> st1, result |-> UnexpectedEof]
             ELSE increment_multi_loop(st1, opaques,
                      insert(results, opaques[resp.opaque], ReadU64BE(resp.value)))

\* kv: a HashMap from key to (amount, initial, expiration); order is the order
\* its iterator yields the keys in, drawn[i] the opaque drawn for the i-th of
\* them, opaque the one send_noop draws
increment_multi(st, kv, order, drawn, opaque) ==
    LET rqs == [i \in 1..Len(order) |->
                   Request("Increment", drawn[i], 0, order[i],
                           CounterExtras(kv[order[i]].amount, kv[order[i]].initial,
                                         kv[order[i]].expiration), <<>>)]
        opaques == [o \in {drawn[i] : i \in 1..Len(order)} |->
                       order[CHOOSE i \in 1..Len(order) :
                                /\ drawn[i] = o
                                /\ \A j \in (i + 1)..Len(order) : drawn[j] # o]]
    IN  increment_multi_loop(stream_flush(send_noop(write_each(st, rqs), opaque)),
                             opaques, EmptyMap)

\* a loop that counts on one response per key and stops at the first
get_multi_first(st, result) ==
    IF st.stream = <<>> THEN [st |-> st, result |-> NoReturn(Starved(st))]
    ELSE LET resp == Head(st.stream)
         IN  IF resp.status # "NoError"
             THEN [st |-> read_from(st), result |-> from_status(resp.status, <<>>)]
             ELSE [st |-> read_from(st), result |-> Ok(result)]

RECURSIVE get_multi_loop(_, _)
get_multi_loop(st, result) ==
    IF st.stream = <<>> THEN [st |-> st, result |-> NoReturn(Starved(st))]
    ELSE LET resp == Head(st.stream)
             st1  == read_from(st)
         IN  IF resp.status # "NoError"
             THEN [st |-> st1, result |-> from_status(resp.status, <<>>)]
             ELSE IF resp.command = "Noop" THEN [st |-> st1, result |-> Ok(result)]
             ELSE IF Len(resp.extra) < 4 THEN [st |-> st1, result |-> UnexpectedEof]
             ELSE get_multi_loop(st1,
                      insert(result, resp.key,
                             [value |-> resp.value, flags |-> ReadU32BE(resp.extra)]))

\* a get_multi whose per-key requests are not quiet
get_multi_answered(st, keys, opaque) ==
    LET rqs == [i \in 1..Len(keys) |->
                   Request("GetKey", 0, 0, keys[i], <<>>, <<>>)]
    IN  get_multi_loop(send_noop(write_each(st, rqs), opaque), EmptyMap)

get_multi(st, keys, opaque) ==
    LET rqs == [i \in 1..Len(keys) |->
                   Request("GetKeyQuietly", 0, 0, keys[i], <<>>, <<>>)]
    IN  get_multi_loop(send_noop(write_each(st, rqs), opaque), EmptyMap)

-----------------------------------------------------------------------------
(* impl NoReplyOperation for BinaryProto: write, flush, Ok(()) *)

\* a no-reply operation that waits for an answer when one is at hand
noreply_awaited(st, req) ==
    LET st1 == stream_flush(write_to(st, req))
    IN  [st |-> IF st1.stream = <<>> THEN st1 ELSE read_from(st1), result |-> Ok(<<>>)]

\* the tail every no-reply operation shares: write_to, flush, Ok(())
noreply(st, req) ==
    [st |-> stream_flush(write_to(st, req)), result |-> Ok(<<>>)]

set_noreply(st, key, value, flags, expiration, opaque) ==
    noreply(st, Request("SetQuietly", opaque, 0, key, StoreExtras(flags, expiration), value))

add_noreply(st, key, value, flags, expiration, opaque) ==
    noreply(st, Request("AddQuietly", opaque, 0, key, StoreExtras(flags, expiration), value))

delete_noreply(st, key, opaque) ==
    noreply(st, Request("DeleteQuietly", opaque, 0, key, <<>>, <<>>))

replace_noreply(st, key, value, flags, expiration, opaque) ==
    noreply(st, Request("ReplaceQuietly", opaque, 0, key, StoreExtras(flags, expiration), value))

increment_noreply(st, key, amount, initial, expiration, opaque) ==
    noreply(st, Request("IncrementQuietly", opaque, 0, key,
                        CounterExtras(amount, initial, expiration), <<>>))

decrement_noreply(st, key, amount, initial, expiration, opaque) ==
    noreply(st, Request("DecrementQuietly", opaque, 0, key,
                        CounterExtras(amount, initial, expiration), <<>>))

append_noreply(st, key, value, opaque) ==
    noreply(st, Request("AppendQuietly", opaque, 0, key, <<>>, value))

prepend_noreply(st, key, value, opaque) ==
    noreply(st, Request("PrependQuietly", opaque, 0, key, <<>>, value))


-----------------------------------------------------------------------------
(* impl CasOperation for BinaryProto *)

\* match resp.header.status { NoError => Ok(resp.header.cas), _ => Err(..) }
cas_result(resp) ==
    IF resp.status = "NoError" THEN Ok(resp.cas) ELSE from_status(resp.status, <<>>)

\* NoError => Ok((read_u64(value), resp.header.cas))
counter_cas_result(resp) ==
    IF resp.status = "NoError"
    THEN IF Len(resp.value) < 8 THEN UnexpectedEof
         ELSE Ok([value |-> ReadU64BE(resp.value), cas |-> resp.cas])
    ELSE from_status(resp.status, <<>>)

\* a set_cas that leaves the header's CAS field 0
set_cas_unchecked(st, key, value, flags, expiration, cas, opaque) ==
    LET extra == StoreExtras(flags, expiration)
        rd    == roundtrip(st, Request("Set", opaque, 0, key, extra, value))
    IN  Return(rd, cas_result(rd.resp))

set_cas(st, key, value, flags, expiration, cas, opaque) ==
    LET extra == StoreExtras(flags, expiration)
        rd    == roundtrip(st, Request("Set", opaque, cas, key, extra, value))
    IN  Return(rd, cas_result(rd.resp))

\* an add_cas whose request carries the Set opcode
add_cas_as_set(st, key, value, flags, expiration, opaque) ==
    LET extra == StoreExtras(flags, expiration)
        rd    == roundtrip(st, Request("Set", opaque, 0, key, extra, value))
    IN  Return(rd, cas_result(rd.resp))

add_cas(st, key, value, flags, expiration, opaque) ==
    LET extra == StoreExtras(flags, expiration)
        rd    == roundtrip(st, Request("Add", opaque, 0, key, extra, value))
    IN  Return(rd, cas_result(rd.resp))

replace_cas(st, key, value, flags, expiration, cas, opaque) ==
    LET extra == StoreExtras(flags, expiration)
        rd    == roundtrip(st, Request("Replace", opaque, cas, key, extra, value))
    IN  Return(rd, cas_result(rd.resp))

\* a get_cas that does not take the version from the response header
get_cas_unversioned(st, key, opaque) ==
    LET rd == roundtrip(st, Request("Get", opaque, 0, key, <<>>, <<>>))
    IN  Return(rd, IF rd.resp.status = "NoError"
                   THEN Ok([value |-> rd.resp.value, flags |-> ReadU32BE(rd.resp.extra),
                            cas |-> 0])
                   ELSE from_status(rd.resp.status, <<>>))

get_cas(st, key, opaque) ==
    LET rd == roundtrip(st, Request("Get", opaque, 0, key, <<>>, <<>>))
    IN  Return(rd, IF rd.resp.status = "NoError"
                   THEN IF Len(rd.resp.extra) < 4 THEN UnexpectedEof
                        ELSE Ok([value |-> rd.resp.value,
                                 flags |-> ReadU32BE(rd.resp.extra),
                                 cas |-> rd.resp.cas])
                   ELSE from_status(rd.resp.status, <<>>))

getk_cas(st, key, opaque) ==
    LET rd == roundtrip(st, Request("GetKey", opaque, 0, key, <<>>, <<>>))
    IN  Return(rd, IF rd.resp.status = "NoError"
                   THEN IF Len(rd.resp.extra) < 4 THEN UnexpectedEof
                        ELSE Ok([key |-> rd.resp.key, value |-> rd.resp.value,
                                 flags |-> ReadU32BE(rd.resp.extra),
                                 cas |-> rd.resp.cas])
                   ELSE from_status(rd.resp.status, <<>>))

increment_cas(st, key, amount, initial, expiration, cas, opaque) ==
    LET extra == CounterExtras(amount, initial, expiration)
        rd    == roundtrip(st, Request("Increment", opaque, cas, key, extra, <<>>))
    IN  Return(rd, counter_cas_result(rd.resp))

decrement_cas(st, key, amount, initial, expiration, cas, opaque) ==
    LET extra == CounterExtras(amount, initial, expiration)
        rd    == roundtrip(st, Request("Decrement", opaque, cas, key, extra, <<>>))
    IN  Return(rd, counter_cas_result(rd.resp))

append_cas(st, key, value, cas, opaque) ==
    LET rd == roundtrip(st, Request("Append", opaque, cas, key, <<>>, value))
    IN  Return(rd, cas_result(rd.resp))

prepend_cas(st, key, value, cas, opaque) ==
    LET rd == roundtrip(st, Request("Prepend", opaque, cas, key, <<>>, value))
    IN  Return(rd, cas_result(rd.resp))

touch_cas(st, key, expiration, cas, opaque) ==
    LET extra == U32BE(expiration)
        rd    == roundtrip(st, Request("Touch", opaque, cas, key, extra, <<>>))
    IN  Return(rd, cas_result(rd.resp))


-----------------------------------------------------------------------------
(* The state machine.  One action is one call of one operation; it runs    *)
(* the operation's statements on the connection to server s and records    *)
(* the call in last:                                                       *)
(*   layer, op   "driver" or "client", and the operation's name            *)
(*   kind        "simple", "cas", "noreply", "multi" or "server"           *)
(*   conn, args, opaque   the server, the arguments, the first opaque drawn*)
(*   st0, st     the connection state before and after the call            *)
(*   result      what the call returned                                    *)

\* the connection to s as a call of the given kind finds it
Conn(s, kind) ==
    [ store |-> store[s], casid |-> casid[s], stream |-> stream[s], closed |-> closed[s],
      stats |-> StatReplies, sasl |-> "plain", wbuf |-> <<>>, reqs |-> reqs, by |-> kind, ev |-> <<>>,
      written |-> <<>>,
      avail |-> stream[s], got |-> <<>> ]

\* the i-th value fastrand::u32(..) yields during a call.  The model draws
\* values that no response still unread carries
draw(i) == reqs + i

NoArgs ==
    [ key |-> <<>>, keys |-> <<>>, kv |-> EmptyMap, value |-> <<>>, flags |-> 0,
      amount |-> 0, initial |-> 0, expiration |-> 0, cas |-> 0 ]

KeyArgs(key) == [NoArgs EXCEPT !.key = key]
StoreArgs(key, value, flags, expiration) ==
    [NoArgs EXCEPT !.key = key, !.value = value, !.flags = flags, !.expiration = expiration]
CounterArgs(key, amount, initial, expiration) ==
    [NoArgs EXCEPT !.key = key, !.amount = amount, !.initial = initial,
                   !.expiration = expiration]

CasWrites ==
    { "set_cas", "add_cas", "replace_cas", "increment_cas", "decrement_cas",
      "append_cas", "prepend_cas", "touch_cas" }

\* the version token a successful write handed to its caller, 0 if none
ReturnedToken(op, result) ==
    IF op \in CasWrites /\ result.tag = "Ok"
    THEN IF op \in {"increment_cas", "decrement_cas"} THEN result.val.cas ELSE result.val
    ELSE 0

Do(layer, op, kind, s, args, r) ==
    /\ nops < MaxOps
    /\ nops' = nops + 1
    /\ store' = [store EXCEPT ![s] = r.st.store]
    /\ casid' = [casid EXCEPT ![s] = r.st.casid]
    /\ stream' = [stream EXCEPT ![s] = r.st.stream]
    /\ closed' = [closed EXCEPT ![s] = r.st.closed]
    /\ reqs' = r.st.reqs
    /\ last' = [ layer |-> layer, op |-> op, kind |-> kind, conn |-> s, args |-> args,
                 opaque |-> draw(1), st0 |-> Conn(s, kind), st |-> r.st,
                 result |-> r.result ]
    /\ tok' = [k \in Keys |->
                 IF k = args.key /\ ReturnedToken(op, r.result) # 0
                 THEN ReturnedToken(op, r.result)
                 ELSE IF r.st.store[k] # store[s][k] THEN 0 ELSE tok[k]]
    /\ failed' = [k \in Keys |->
                    IF k = args.key /\ op \in CasWrites /\ r.result.tag = "Err" THEN TRUE
                    ELSE IF r.st.store[k] # store[s][k] THEN FALSE ELSE failed[k]]
    /\ UNCHANGED svrs

NoCall ==
    [ layer |-> "none", op |-> "none", kind |-> "none", conn |-> "s1", args |-> NoArgs,
      opaque |-> 0, st0 |-> Conn("s1", "none"), st |-> Conn("s1", "none"),
      result |-> Ok(<<>>) ]

\* what a server may hold when the connection is made
InitialStores ==
    { [k \in Keys |-> NoItem],
      [k \in Keys |-> IF k = K1 THEN Item(<<97>>, 1, 1) ELSE NoItem] }

RECURSIVE MaxCas(_, _)
MaxCas(m, S) ==
    IF S = {} THEN 0
    ELSE LET k == CHOOSE x \in S : TRUE
             c == IF m[k] = NoItem THEN 0 ELSE m[k][1].cas
             d == MaxCas(m, S \ {k})
         IN  IF c > d THEN c ELSE d

InitWith(servers) ==
    /\ svrs = servers
    /\ store \in [Addrs -> InitialStores]
    /\ casid = [s \in Addrs |-> MaxCas(store[s], Keys)]
    /\ stream = [s \in Addrs |-> <<>>]
    /\ closed = [s \in Addrs |-> FALSE]
    /\ reqs = 0
    /\ tok = [k \in Keys |-> 0]
    /\ failed = [k \in Keys |-> FALSE]
    /\ nops = 0
    /\ last = NoCall

\* no connection has carried anything
NoTraffic ==
    /\ svrs = << [addr |-> "s1", weight |-> 1] >>
    /\ store = [s \in Addrs |-> [k \in Keys |-> NoItem]]
    /\ casid = [s \in Addrs |-> 0]
    /\ stream = [s \in Addrs |-> <<>>]
    /\ closed = [s \in Addrs |-> FALSE]
    /\ reqs = 0
    /\ tok = [k \in Keys |-> 0]
    /\ failed = [k \in Keys |-> FALSE]
    /\ nops = 0

\* a driver alone: one BinaryProto connected to s1
Init ==
    /\ InitWith(<< [addr |-> "s1", weight |-> 1] >>)
    /\ store["s2"] = [k \in Keys |-> NoItem]

-----------------------------------------------------------------------------
(* Calls of the driver's simple operations *)

BinaryProto_set(key, value, flags, expiration) ==
    Do("driver", "set", "simple", "s1", StoreArgs(key, value, flags, expiration),
       set(Conn("s1", "simple"), key, value, flags, expiration, draw(1)))

BinaryProto_add(key, value, flags, expiration) ==
    Do("driver", "add", "simple", "s1", StoreArgs(key, value, flags, expiration),
       add(Conn("s1", "simple"), key, value, flags, expiration, draw(1)))

BinaryProto_delete(key) ==
    Do("driver", "delete", "simple", "s1", KeyArgs(key),
       delete(Conn("s1", "simple"), key, draw(1)))

BinaryProto_replace(key, value, flags, expiration) ==
    Do("driver", "replace", "simple", "s1", StoreArgs(key, value, flags, expiration),
       replace(Conn("s1", "simple"), key, value, flags, expiration, draw(1)))

BinaryProto_get(key) ==
    Do("driver", "get", "simple", "s1", KeyArgs(key),
       get(Conn("s1", "simple"), key, draw(1)))

BinaryProto_getk(key) ==
    Do("driver", "getk", "simple", "s1", KeyArgs(key),
       getk(Conn("s1", "simple"), key, draw(1)))

BinaryProto_increment(key, amount, initial, expiration) ==
    Do("driver", "increment", "simple", "s1", CounterArgs(key, amount, initial, expiration),
       increment(Conn("s1", "simple"), key, amount, initial, expiration, draw(1)))

BinaryProto_decrement(key, amount, initial, expiration) ==
    Do("driver", "decrement", "simple", "s1", CounterArgs(key, amount, initial, expiration),
       decrement(Conn("s1", "simple"), key, amount, initial, expiration, draw(1)))

BinaryProto_append(key, value) ==
    Do("driver", "append", "simple", "s1", StoreArgs(key, value, 0, 0),
       append(Conn("s1", "simple"), key, value, draw(1)))

BinaryProto_prepend(key, value) ==
    Do("driver", "prepend", "simple", "s1", StoreArgs(key, value, 0, 0),
       prepend(Conn("s1", "simple"), key, value, draw(1)))

BinaryProto_touch(key, expiration) ==
    Do("driver", "touch", "simple", "s1", StoreArgs(key, <<>>, 0, expiration),
       touch(Conn("s1", "simple"), key, expiration, draw(1)))

BinaryProto_noop ==
    Do("driver", "noop", "server", "s1", NoArgs, noop(Conn("s1", "server"), draw(1)))

BinaryProto_quit ==
    Do("driver", "quit", "server", "s1", NoArgs, quit(Conn("s1", "server"), draw(1)))

BinaryProto_stat ==
    Do("driver", "stat", "server", "s1", NoArgs, stat(Conn("s1", "server"), draw(1)))


-----------------------------------------------------------------------------
(* Calls of the driver's no-reply operations *)

BinaryProto_set_noreply(key, value, flags, expiration) ==
    Do("driver", "set_noreply", "noreply", "s1", StoreArgs(key, value, flags, expiration),
       set_noreply(Conn("s1", "noreply"), key, value, flags, expiration, draw(1)))

BinaryProto_add_noreply(key, value, flags, expiration) ==
    Do("driver", "add_noreply", "noreply", "s1", StoreArgs(key, value, flags, expiration),
       add_noreply(Conn("s1", "noreply"), key, value, flags, expiration, draw(1)))

BinaryProto_delete_noreply(key) ==
    Do("driver", "delete_noreply", "noreply", "s1", KeyArgs(key),
       delete_noreply(Conn("s1", "noreply"), key, draw(1)))

BinaryProto_replace_noreply(key, value, flags, expiration) ==
    Do("driver", "replace_noreply", "noreply", "s1", StoreArgs(key, value, flags, expiration),
       replace_noreply(Conn("s1", "noreply"), key, value, flags, expiration, draw(1)))

BinaryProto_increment_noreply(key, amount, initial, expiration) ==
    Do("driver", "increment_noreply", "noreply", "s1",
       CounterArgs(key, amount, initial, expiration),
       increment_noreply(Conn("s1", "noreply"), key, amount, initial, expiration, draw(1)))

BinaryProto_decrement_noreply(key, amount, initial, expiration) ==
    Do("driver", "decrement_noreply", "noreply", "s1",
       CounterArgs(key, amount, initial, expiration),
       decrement_noreply(Conn("s1", "noreply"), key, amount, initial, expiration, draw(1)))

BinaryProto_append_noreply(key, value) ==
    Do("driver", "append_noreply", "noreply", "s1", StoreArgs(key, value, 0, 0),
       append_noreply(Conn("s1", "noreply"), key, value, draw(1)))

BinaryProto_prepend_noreply(key, value) ==
    Do("driver", "prepend_noreply", "noreply", "s1", StoreArgs(key, value, 0, 0),
       prepend_noreply(Conn("s1", "noreply"), key, value, draw(1)))

-----------------------------------------------------------------------------
(* Calls of the driver's CAS operations *)

BinaryProto_set_cas(key, value, flags, expiration, cas) ==
    Do("driver", "set_cas", "cas", "s1", [StoreArgs(key, value, flags, expiration) EXCEPT !.cas = cas],
       set_cas(Conn("s1", "cas"), key, value, flags, expiration, cas, draw(1)))

BinaryProto_add_cas(key, value, flags, expiration) ==
    Do("driver", "add_cas", "cas", "s1", StoreArgs(key, value, flags, expiration),
       add_cas(Conn("s1", "cas"), key, value, flags, expiration, draw(1)))

BinaryProto_replace_cas(key, value, flags, expiration, cas) ==
    Do("driver", "replace_cas", "cas", "s1", [StoreArgs(key, value, flags, expiration) EXCEPT !.cas = cas],
       replace_cas(Conn("s1", "cas"), key, value, flags, expiration, cas, draw(1)))

BinaryProto_get_cas(key) ==
    Do("driver", "get_cas", "cas", "s1", KeyArgs(key),
       get_cas(Conn("s1", "cas"), key, draw(1)))

BinaryProto_getk_cas(key) ==
    Do("driver", "getk_cas", "cas", "s1", KeyArgs(key),
       getk_cas(Conn("s1", "cas"), key, draw(1)))

BinaryProto_increment_cas(key, amount, initial, expiration, cas) ==
    Do("driver", "increment_cas", "cas", "s1",
       [CounterArgs(key, amount, initial, expiration) EXCEPT !.cas = cas],
       increment_cas(Conn("s1", "cas"), key, amount, initial, expiration, cas, draw(1)))

BinaryProto_decrement_cas(key, amount, initial, expiration, cas) ==
    Do("driver", "decrement_cas", "cas", "s1",
       [CounterArgs(key, amount, initial, expiration) EXCEPT !.cas = cas],
       decrement_cas(Conn("s1", "cas"), key, amount, initial, expiration, cas, draw(1)))

BinaryProto_append_cas(key, value, cas) ==
    Do("driver", "append_cas", "cas", "s1", [StoreArgs(key, value, 0, 0) EXCEPT !.cas = cas],
       append_cas(Conn("s1", "cas"), key, value, cas, draw(1)))

BinaryProto_prepend_cas(key, value, cas) ==
    Do("driver", "prepend_cas", "cas", "s1", [StoreArgs(key, value, 0, 0) EXCEPT !.cas = cas],
       prepend_cas(Conn("s1", "cas"), key, value, cas, draw(1)))

BinaryProto_touch_cas(key, expiration, cas) ==
    Do("driver", "touch_cas", "cas", "s1", [StoreArgs(key, <<>>, 0, expiration) EXCEPT !.cas = cas],
       touch_cas(Conn("s1", "cas"), key, expiration, cas, draw(1)))

-----------------------------------------------------------------------------
(* Calls of the driver's multi-key operations *)

BinaryProto_set_multi(kv) ==
    Do("driver", "set_multi", "multi", "s1",
       [NoArgs EXCEPT !.kv = kv, !.keys = into_iter(DOMAIN kv)],
       set_multi(Conn("s1", "multi"), kv, draw(1)))

BinaryProto_delete_multi(keys) ==
    Do("driver", "delete_multi", "multi", "s1", [NoArgs EXCEPT !.keys = keys],
       delete_multi(Conn("s1", "multi"), keys, draw(1)))

\* order: the order the HashMap's iterator yields the keys in
BinaryProto_increment_multi(kv, order) ==
    Do("driver", "increment_multi", "multi", "s1",
       [NoArgs EXCEPT !.kv = kv, !.keys = order],
       increment_multi(Conn("s1", "multi"), kv, order,
                       [i \in 1..Len(order) |-> draw(i)], draw(Len(order) + 1)))

BinaryProto_get_multi(keys) ==
    Do("driver", "get_multi", "multi", "s1", [NoArgs EXCEPT !.keys = keys],
       get_multi(Conn("s1", "multi"), keys, draw(1)))


-----------------------------------------------------------------------------
(* Spec: a driver whose caller uses the single-key operations (simple,     *)
(* no-reply and CAS) and the server operations noop and stat               *)

\* the keys the driver's caller uses
DriverKeys == {K1}

\* the tokens a caller passes: none, the key's current version (the last
\* version handed out if the key is absent), and one that is not current
Tokens(s, key) ==
    LET c == IF store[s][key] = NoItem THEN casid[s] ELSE store[s][key][1].cas
    IN  {0, c, c + 1}

Next ==
    \/ \E key \in DriverKeys, p \in Payloads, e \in Expirations :
           BinaryProto_set(key, p.value, p.flags, e)
    \/ \E key \in DriverKeys, p \in Payloads, e \in Expirations :
           BinaryProto_add(key, p.value, p.flags, e)
    \/ \E key \in DriverKeys : BinaryProto_delete(key)
    \/ \E key \in DriverKeys, p \in Payloads, e \in Expirations :
           BinaryProto_replace(key, p.value, p.flags, e)
    \/ \E key \in DriverKeys : BinaryProto_get(key)
    \/ \E key \in DriverKeys : BinaryProto_getk(key)
    \/ \E key \in DriverKeys, a \in Amounts, i \in Initials, e \in Expirations :
           BinaryProto_increment(key, a, i, e)
    \/ \E key \in DriverKeys, a \in Amounts, i \in Initials, e \in Expirations :
           BinaryProto_decrement(key, a, i, e)
    \/ \E key \in DriverKeys, p \in Payloads : BinaryProto_append(key, p.value)
    \/ \E key \in DriverKeys, p \in Payloads : BinaryProto_prepend(key, p.value)
    \/ \E key \in DriverKeys, e \in Expirations : BinaryProto_touch(key, e)
    \/ BinaryProto_noop
    \/ BinaryProto_stat
    \/ \E key \in DriverKeys, p \in Payloads, e \in Expirations :
           BinaryProto_set_noreply(key, p.value, p.flags, e)
    \/ \E key \in DriverKeys, p \in Payloads, e \in Expirations :
           BinaryProto_add_noreply(key, p.value, p.flags, e)
    \/ \E key \in DriverKeys : BinaryProto_delete_noreply(key)
    \/ \E key \in DriverKeys, p \in Payloads, e \in Expirations :
           BinaryProto_replace_noreply(key, p.value, p.flags, e)
    \/ \E key \in DriverKeys, a \in Amounts, i \in Initials, e \in Expirations :
           BinaryProto_increment_noreply(key, a, i, e)
    \/ \E key \in DriverKeys, a \in Amounts, i \in Initials, e \in Expirations :
           BinaryProto_decrement_noreply(key, a, i, e)
    \/ \E key \in DriverKeys, p \in Payloads : BinaryProto_append_noreply(key, p.value)
    \/ \E key \in DriverKeys, p \in Payloads : BinaryProto_prepend_noreply(key, p.value)
    \/ \E key \in DriverKeys, p \in Payloads, e \in Expirations : \E cas \in Tokens("s1", key) :
           BinaryProto_set_cas(key, p.value, p.flags, e, cas)
    \/ \E key \in DriverKeys, p \in Payloads, e \in Expirations : BinaryProto_add_cas(key, p.value, p.flags, e)
    \/ \E key \in DriverKeys, p \in Payloads, e \in Expirations : \E cas \in Tokens("s1", key) :
           BinaryProto_replace_cas(key, p.value, p.flags, e, cas)
    \/ \E key \in DriverKeys : BinaryProto_get_cas(key)
    \/ \E key \in DriverKeys : BinaryProto_getk_cas(key)
    \/ \E key \in DriverKeys, a \in Amounts, i \in Initials, e \in Expirations : \E cas \in Tokens("s1", key) :
           BinaryProto_increment_cas(key, a, i, e, cas)
    \/ \E key \in DriverKeys, a \in Amounts, i \in Initials, e \in Expirations : \E cas \in Tokens("s1", key) :
           BinaryProto_decrement_cas(key, a, i, e, cas)
    \/ \E key \in DriverKeys, p \in Payloads : \E cas \in Tokens("s1", key) : BinaryProto_append_cas(key, p.value, cas)
    \/ \E key \in DriverKeys, p \in Payloads : \E cas \in Tokens("s1", key) : BinaryProto_prepend_cas(key, p.value, cas)
    \/ \E key \in DriverKeys, e \in Expirations : \E cas \in Tokens("s1", key) : BinaryProto_touch_cas(key, e, cas)

Spec == Init /\ [][Next]_vars


-----------------------------------------------------------------------------
(* SpecMulti: a driver whose caller uses the multi-key operations, between *)
(* no-reply and simple operations that can leave responses unread          *)

\* the maps of set_multi: every key of D with the same payload
SetMaps ==
    { [k \in D |-> [value |-> p.value, flags |-> p.flags, expiration |-> e]] :
        D \in {{}, {K1}, {K1, K2}}, p \in Payloads, e \in Expirations }

\* the maps of increment_multi
CounterMaps ==
    { [k \in D |-> [amount |-> a, initial |-> i, expiration |-> e]] :
        D \in {{}, {K1}, {K1, K2}}, a \in Amounts, i \in Initials, e \in Expirations }

\* the key slices of get_multi and delete_multi
KeyLists == { <<>>, <<K1>>, <<K1, K2>>, <<K2, K1>>, <<K1, K1>> }

\* the orders a HashMap's iterator may yield the keys of D in
Orders(D) ==
    { o \in {<<>>, <<K1>>, <<K2>>, <<K1, K2>>, <<K2, K1>>} :
        Len(o) = Cardinality(D) /\ {o[i] : i \in 1..Len(o)} = D }

NextMulti ==
    \/ \E kv \in SetMaps : BinaryProto_set_multi(kv)
    \/ \E keys \in KeyLists : BinaryProto_delete_multi(keys)
    \/ \E kv \in CounterMaps : \E order \in Orders(DOMAIN kv) :
           BinaryProto_increment_multi(kv, order)
    \/ \E keys \in KeyLists : BinaryProto_get_multi(keys)
    \/ \E key \in Keys, p \in Payloads, e \in Expirations :
           BinaryProto_add_noreply(key, p.value, p.flags, e)
    \/ \E key \in Keys : BinaryProto_delete_noreply(key)
    \/ \E key \in Keys, p \in Payloads, e \in Expirations :
           BinaryProto_set(key, p.value, p.flags, e)
    \/ \E key \in Keys : BinaryProto_get(key)
    \/ BinaryProto_noop
    \/ BinaryProto_stat

SpecMulti == Init /\ [][NextMulti]_vars



-----------------------------------------------------------------------------
(* SpecServer: a driver whose caller uses quit among the other operations  *)

\* what a server may have to say to a stat request: nothing, one statistic,
\* two, one twice, a failure after the first, a statistic without a name, and
\* a value that is not text
StatScripts ==
    { << StatLine("NoError", <<>>, <<>>) >>,
      StatReplies,
      << StatLine("NoError", <<112>>, <<49>>), StatLine("NoError", <<113>>, <<50>>),
         StatLine("NoError", <<>>, <<>>) >>,
      << StatLine("NoError", <<112>>, <<49>>), StatLine("NoError", <<112>>, <<50>>),
         StatLine("NoError", <<>>, <<>>) >>,
      << StatLine("NoError", <<112>>, <<49>>), StatLine("Busy", <<>>, ErrorText),
         StatLine("NoError", <<113>>, <<50>>), StatLine("NoError", <<>>, <<>>) >>,
      << StatLine("NoError", <<>>, <<49>>), StatLine("NoError", <<>>, <<>>) >>,
      << StatLine("NoError", <<112>>, <<200>>), StatLine("NoError", <<>>, <<>>) >> }

\* stat against a server that answers it with the given responses
BinaryProto_stat_serving(replies) ==
    Do("driver", "stat", "server", "s1", [NoArgs EXCEPT !.keys = replies],
       stat([Conn("s1", "server") EXCEPT !.stats = replies], draw(1)))

NextServer ==
    \/ BinaryProto_quit
    \/ \E replies \in StatScripts : BinaryProto_stat_serving(replies)
    \/ BinaryProto_noop
    \/ BinaryProto_stat
    \/ \E key \in Keys, p \in Payloads, e \in Expirations :
           BinaryProto_set(key, p.value, p.flags, e)
    \/ \E key \in Keys : BinaryProto_get(key)
    \/ \E key \in Keys, p \in Payloads, e \in Expirations :
           BinaryProto_set_noreply(key, p.value, p.flags, e)
    \/ \E key \in Keys, p \in Payloads, e \in Expirations :
           BinaryProto_add_noreply(key, p.value, p.flags, e)
    \/ \E keys \in KeyLists : BinaryProto_get_multi(keys)

SpecServer == Init /\ [][NextServer]_vars

\* authentication on a connection that no-reply calls also use
Mechanisms == {PLAIN, CHALLENGE, OTHER_MECH}
AuthData == {GoodData, BadData}

AuthArgs(mech, data) == [NoArgs EXCEPT !.key = mech, !.value = data]

BinaryProto_auth_start(mech, init) ==
    Do("driver", "auth_start", "auth", "s1", AuthArgs(mech, init),
       auth_start(Conn("s1", "auth"), mech, init, draw(1)))

BinaryProto_auth_continue(mech, data) ==
    Do("driver", "auth_continue", "auth", "s1", AuthArgs(mech, data),
       auth_continue(Conn("s1", "auth"), mech, data, draw(1)))

NextAuth ==
    \/ \E mech \in Mechanisms, init \in AuthData : BinaryProto_auth_start(mech, init)
    \/ \E mech \in Mechanisms, data \in AuthData : BinaryProto_auth_continue(mech, data)
    \/ \E key \in Keys, p \in Payloads, e \in Expirations :
           BinaryProto_add_noreply(key, p.value, p.flags, e)

SpecAuth == Init /\ [][NextAuth]_vars

-----------------------------------------------------------------------------
(* A session: calls made one after another on one connection, each state   *)
(* keeping, beside the latest call, what the call before it was            *)

SessionAmounts == {1, 10, 20}
SessionInitials == {0, 9}
SessionExpirations == {20}

\* what is kept of the call before: absent tells whether its key was absent
\* when it was made
Earlier ==
    [ op     |-> last.op,
      args   |-> last.args,
      result |-> last.result,
      absent |-> IF last.args.key \in Keys THEN last.st0.store[last.args.key] = NoItem
                 ELSE FALSE ]

DoAfter(layer, op, kind, s, args, r) ==
    /\ nops < MaxOps
    /\ nops' = nops + 1
    /\ store' = [store EXCEPT ![s] = r.st.store]
    /\ casid' = [casid EXCEPT ![s] = r.st.casid]
    /\ stream' = [stream EXCEPT ![s] = r.st.stream]
    /\ closed' = [closed EXCEPT ![s] = r.st.closed]
    /\ reqs' = r.st.reqs
    /\ last' = [ layer |-> layer, op |-> op, kind |-> kind, conn |-> s, args |-> args,
                 opaque |-> draw(1), st0 |-> Conn(s, kind), st |-> r.st,
                 result |-> r.result, prev |-> Earlier ]
    /\ UNCHANGED <<svrs, tok, failed>>

Session_set(key, value, flags, expiration) ==
    DoAfter("driver", "set", "simple", "s1", StoreArgs(key, value, flags, expiration),
            set(Conn("s1", "simple"), key, value, flags, expiration, draw(1)))

Session_get(key) ==
    DoAfter("driver", "get", "simple", "s1", KeyArgs(key),
            get(Conn("s1", "simple"), key, draw(1)))

Session_getk(key) ==
    DoAfter("driver", "getk", "simple", "s1", KeyArgs(key),
            getk(Conn("s1", "simple"), key, draw(1)))

Session_delete(key) ==
    DoAfter("driver", "delete", "simple", "s1", KeyArgs(key),
            delete(Conn("s1", "simple"), key, draw(1)))

Session_increment(key, amount, initial, expiration) ==
    DoAfter("driver", "increment", "simple", "s1",
            CounterArgs(key, amount, initial, expiration),
            increment(Conn("s1", "simple"), key, amount, initial, expiration, draw(1)))

Session_decrement(key, amount, initial, expiration) ==
    DoAfter("driver", "decrement", "simple", "s1",
            CounterArgs(key, amount, initial, expiration),
            decrement(Conn("s1", "simple"), key, amount, initial, expiration, draw(1)))

Session_add_noreply(key, value, flags, expiration) ==
    DoAfter("driver", "add_noreply", "noreply", "s1",
            StoreArgs(key, value, flags, expiration),
            add_noreply(Conn("s1", "noreply"), key, value, flags, expiration, draw(1)))

InitSession == Init

NextSession ==
    \/ \E key \in DriverKeys, p \in Payloads, e \in SessionExpirations :
           Session_set(key, p.value, p.flags, e)
    \/ \E key \in DriverKeys : Session_get(key)
    \/ \E key \in DriverKeys : Session_getk(key)
    \/ \E key \in DriverKeys : Session_delete(key)
    \/ \E key \in DriverKeys, a \in SessionAmounts, i \in SessionInitials,
          e \in SessionExpirations : Session_increment(key, a, i, e)
    \/ \E key \in DriverKeys, a \in SessionAmounts, i \in SessionInitials,
          e \in SessionExpirations : Session_decrement(key, a, i, e)
    \/ \E key \in DriverKeys, p \in Payloads, e \in SessionExpirations :
           Session_add_noreply(key, p.value, p.flags, e)

SpecSession == InitSession /\ [][NextSession]_vars

-----------------------------------------------------------------------------
(* A call waiting for its answer, one read at a time: the request has been  *)
(* written and flushed, the server sends its responses one by one, and the  *)
(* read loop of the operation takes them off the stream                     *)

MaxScript == 3

\* responses as the read loops look at them: opaque, status, command
WaitResponses ==
    { [opaque |-> 7, status |-> "NoError",     command |-> "Set"],
      [opaque |-> 7, status |-> "KeyExists",   command |-> "Set"],
      [opaque |-> 3, status |-> "NoError",     command |-> "Set"],
      [opaque |-> 3, status |-> "KeyNotFound", command |-> "DeleteQuietly"],
      [opaque |-> 3, status |-> "Busy",        command |-> "DeleteQuietly"],
      [opaque |-> 3, status |-> "NoError",     command |-> "Noop"] }

\* what the server is going to send: any responses, in any order
Scripts == UNION { [1..n -> WaitResponses] : n \in 0..MaxScript }

StillReading == [pc |-> "reading", result |-> NoReturn("blocked")]
Returned(res) == [pc |-> "returned", result |-> res]

\* a loop that returns on whatever response comes first
simple_step_first(resp, opaque) == Returned(unit_result(resp))

\* while resp.header.opaque != opaque { resp = read_from()? }; match status
simple_step(resp, opaque) ==
    IF resp.opaque # opaque THEN StillReading
    ELSE Returned(unit_result(resp))

\* loop { resp = read_from()?; match status; if command == Noop { return } }
delete_multi_step(resp) ==
    IF resp.status \notin {"NoError", "KeyNotFound"}
    THEN Returned(from_status(resp.status, <<>>))
    ELSE IF resp.command = "Noop" THEN Returned(Ok(<<>>))
    ELSE StillReading

InitWait ==
    /\ NoTraffic
    /\ last \in [ kind : {"wait"}, op : {"set", "delete_multi"}, opaque : {7},
                  pending : Scripts, read : {<<>>}, pc : {"reading"},
                  result : {NoReturn("blocked")} ]

\* the server sends the next response
Wait_server_answer ==
    /\ last.pending # <<>>
    /\ ~closed["s1"]
    /\ stream' = [stream EXCEPT !["s1"] = Append(@, Head(last.pending))]
    /\ last' = [last EXCEPT !.pending = Tail(@)]
    /\ UNCHANGED <<svrs, store, casid, closed, reqs, tok, failed, nops>>

\* the connection is closed; what was sent can still be read
Wait_server_close ==
    /\ ~closed["s1"]
    /\ closed' = [closed EXCEPT !["s1"] = TRUE]
    /\ UNCHANGED <<svrs, store, casid, stream, reqs, last, tok, failed, nops>>

Wait_take(next) ==
    /\ stream' = [stream EXCEPT !["s1"] = Tail(@)]
    /\ last' = [last EXCEPT !.pc = next.pc, !.result = next.result,
                            !.read = Append(@, Head(stream["s1"]))]
    /\ UNCHANGED <<svrs, store, casid, closed, reqs, tok, failed, nops>>

\* one turn of the read loop of a simple operation
Wait_read_simple ==
    /\ last.pc = "reading"
    /\ last.op = "set"
    /\ stream["s1"] # <<>>
    /\ Wait_take(simple_step(Head(stream["s1"]), last.opaque))

\* one turn of the read loop of a multi-key operation
Wait_read_multi ==
    /\ last.pc = "reading"
    /\ last.op = "delete_multi"
    /\ stream["s1"] # <<>>
    /\ Wait_take(delete_multi_step(Head(stream["s1"])))

\* read_from()? on a closed stream with nothing left to read: an io::Error
Wait_read_closed ==
    /\ last.pc = "reading"
    /\ stream["s1"] = <<>>
    /\ closed["s1"]
    /\ last' = [last EXCEPT !.pc = "io", !.result = NoReturn("io")]
    /\ UNCHANGED <<svrs, store, casid, stream, closed, reqs, tok, failed, nops>>

Wait_read == Wait_read_simple \/ Wait_read_multi \/ Wait_read_closed

NextWait ==
    \/ Wait_server_answer
    \/ Wait_server_close
    \/ Wait_read_simple
    \/ Wait_read_multi
    \/ Wait_read_closed

\* the calling thread runs, and the server sends what it has to send unless
\* the connection is closed
SpecWait ==
    InitWait /\ [][NextWait]_vars /\ WF_vars(Wait_read) /\ WF_vars(Wait_server_answer)

-----------------------------------------------------------------------------
(* Threads, each with a Client and a connection of its own to the same      *)
(* server, running the loop of examples/basic.rs on one key: get_cas, then  *)
(* set_cas with the token read, unwrap() on every result.  A call is a      *)
(* blocking round trip that leaves nothing unread, so between calls every   *)
(* connection's stream is empty and stream["s1"] stands for each of them.   *)

MaxRounds == 2
Threads == {"t1", "t2", "t3"}

\* after client.set_noreply(b"key:dontreply", b"1", 0x00_00_00_01, 20)
InitThreads ==
    /\ svrs = << [addr |-> "s1", weight |-> 1] >>
    /\ store = [s \in Addrs |-> [k \in Keys |-> IF s = "s1" /\ k = K1
                                                 THEN Item(<<49>>, 1, 1) ELSE NoItem]]
    /\ casid = [s \in Addrs |-> IF s = "s1" THEN 1 ELSE 0]
    /\ stream = [s \in Addrs |-> <<>>]
    /\ closed = [s \in Addrs |-> FALSE]
    /\ reqs = 0
    /\ tok = [k \in Keys |-> 0]
    /\ failed = [k \in Keys |-> FALSE]
    /\ nops = 0
    /\ last = [ kind |-> "thread", thread |-> "t1", op |-> "none", result |-> Ok(<<>>),
                pc |-> [t \in Threads |-> "get_cas"], cas |-> [t \in Threads |-> 0],
                rounds |-> [t \in Threads |-> 0] ]

\* thread t has made the call op with outcome r and keeps token; unwrap()
\* panics on an error
Thread_call(t, op, r, next, token, round) ==
    /\ store' = [store EXCEPT !["s1"] = r.st.store]
    /\ casid' = [casid EXCEPT !["s1"] = r.st.casid]
    /\ stream' = [stream EXCEPT !["s1"] = r.st.stream]
    /\ closed' = [closed EXCEPT !["s1"] = r.st.closed]
    /\ reqs' = r.st.reqs
    /\ last' = [last EXCEPT !.thread = t, !.op = op, !.result = r.result,
                            !.pc[t] = IF r.result.tag = "Ok" THEN next ELSE "panicked",
                            !.cas[t] = token,
                            !.rounds[t] = round]
    /\ UNCHANGED <<svrs, tok, failed, nops>>

\* cas = client.get_cas(b"key:dontreply").unwrap().2
Thread_get_cas(t) ==
    /\ last.pc[t] = "get_cas"
    /\ last.rounds[t] < MaxRounds
    /\ LET Call(r) == Thread_call(t, "get_cas", r, "set_cas",
                                   IF r.result.tag = "Ok" THEN r.result.val.cas
                                   ELSE last.cas[t],
                                   last.rounds[t])
       IN  Call(get_cas(Conn("s1", "cas"), K1, draw(1)))

\* client.set_cas(b"key:dontreply", b"1", 0x00_10_01, 20, cas).unwrap()
Thread_set_cas(t) ==
    /\ last.pc[t] = "set_cas"
    /\ Thread_call(t, "set_cas",
                   set_cas(Conn("s1", "cas"), K1, <<49>>, 4097, 20, last.cas[t], draw(1)),
                   "get_cas", last.cas[t], last.rounds[t] + 1)

NextThreads ==
    \/ \E t \in Threads : Thread_get_cas(t)
    \/ \E t \in Threads : Thread_set_cas(t)

SpecThreads == InitThreads /\ [][NextThreads]_vars

-----------------------------------------------------------------------------
(* A plain operation and its CAS variant side by side: both are run on the  *)
(* connection as it stands, with the same arguments and the same opaque,    *)
(* and the outcome of each is kept; the connection goes on as the plain     *)
(* operation leaves it.                                                     *)

Both(op, args, plain, variant) ==
    /\ nops < MaxOps
    /\ nops' = nops + 1
    /\ store' = [store EXCEPT !["s1"] = plain.st.store]
    /\ casid' = [casid EXCEPT !["s1"] = plain.st.casid]
    /\ stream' = [stream EXCEPT !["s1"] = plain.st.stream]
    /\ closed' = [closed EXCEPT !["s1"] = plain.st.closed]
    /\ reqs' = plain.st.reqs
    /\ last' = [ layer |-> "driver", op |-> op, kind |-> "both", conn |-> "s1",
                 args |-> args, opaque |-> draw(1), st0 |-> Conn("s1", "both"),
                 st |-> plain.st, result |-> plain.result,
                 cas_st |-> variant.st, cas_result |-> variant.result ]
    /\ UNCHANGED <<svrs, tok, failed>>

Both_set(key, value, flags, expiration) ==
    Both("set", StoreArgs(key, value, flags, expiration),
         set(Conn("s1", "both"), key, value, flags, expiration, draw(1)),
         set_cas(Conn("s1", "both"), key, value, flags, expiration, 0, draw(1)))

Both_add(key, value, flags, expiration) ==
    Both("add", StoreArgs(key, value, flags, expiration),
         add(Conn("s1", "both"), key, value, flags, expiration, draw(1)),
         add_cas(Conn("s1", "both"), key, value, flags, expiration, draw(1)))

Both_get(key) ==
    Both("get", KeyArgs(key),
         get(Conn("s1", "both"), key, draw(1)),
         get_cas(Conn("s1", "both"), key, draw(1)))

Both_getk(key) ==
    Both("getk", KeyArgs(key),
         getk(Conn("s1", "both"), key, draw(1)),
         getk_cas(Conn("s1", "both"), key, draw(1)))

NextBoth ==
    \/ \E key \in DriverKeys, p \in Payloads, e \in Expirations :
           Both_set(key, p.value, p.flags, e)
    \/ \E key \in DriverKeys, p \in Payloads, e \in Expirations :
           Both_add(key, p.value, p.flags, e)
    \/ \E key \in Keys : Both_get(key)
    \/ \E key \in Keys : Both_getk(key)
    \/ \E key \in DriverKeys : BinaryProto_delete(key)
    \/ \E key \in DriverKeys, p \in Payloads, e \in Expirations :
           BinaryProto_add_noreply(key, p.value, p.flags, e)

SpecBoth == Init /\ [][NextBoth]_vars

-----------------------------------------------------------------------------
(* The Client: a consistent-hash ring of servers (crate conhash) and one   *)
(* driver per server                                                       *)

MaxClientOps == 2

\* the hash of the replica name "addr:i" and of a key, as ring positions
NodePos(addr, i) ==
    CASE addr = "s1" /\ i = 0 -> 2
      [] addr = "s1" /\ i = 1 -> 8
      [] addr = "s2" /\ i = 0 -> 5
      [] addr = "s2" /\ i = 1 -> 11
      [] OTHER -> 12 + i

KeyPos(key) == IF key = K1 THEN 4 ELSE 9

\* ConsistentHash::add for every (addr, weight) of the list: weight replicas each
conn(list) ==
    UNION { { [pos |-> NodePos(list[n].addr, i), addr |-> list[n].addr] :
                i \in 0..(list[n].weight - 1) } : n \in 1..Len(list) }

\* Client.servers
servers == conn(svrs)

\* ConsistentHash::get: the first replica at or after the key's hash, else the first
ring_get(ring, key) ==
    LET after == { r \in ring : r.pos >= KeyPos(key) }
        from  == IF after = {} THEN ring ELSE after
    IN  (CHOOSE r \in from : \A q \in from : r.pos <= q.pos).addr

\* a router that takes the servers in turn, whatever the key
find_server_by_turn(key) == svrs[(nops % Len(svrs)) + 1].addr

find_server_by_key(key) == ring_get(servers, key)

\* the server lists a Client is built from
ServerLists ==
    { << [addr |-> "s1", weight |-> 1], [addr |-> "s2", weight |-> 1] >>,
      << [addr |-> "s1", weight |-> 2] >> }

InitClient == \E list \in ServerLists : InitWith(list)

\* server.borrow_mut().proto.<op>(..): the driver operation of that name
proto_call(op, st, a, opaque) ==
    CASE op = "set" -> set(st, a.key, a.value, a.flags, a.expiration, opaque)
      [] op = "add" -> add(st, a.key, a.value, a.flags, a.expiration, opaque)
      [] op = "delete" -> delete(st, a.key, opaque)
      [] op = "replace" -> replace(st, a.key, a.value, a.flags, a.expiration, opaque)
      [] op = "get" -> get(st, a.key, opaque)
      [] op = "getk" -> getk(st, a.key, opaque)
      [] op = "increment" -> increment(st, a.key, a.amount, a.initial, a.expiration, opaque)
      [] op = "decrement" -> decrement(st, a.key, a.amount, a.initial, a.expiration, opaque)
      [] op = "append" -> append(st, a.key, a.value, opaque)
      [] op = "prepend" -> prepend(st, a.key, a.value, opaque)
      [] op = "touch" -> touch(st, a.key, a.expiration, opaque)
      [] op = "set_noreply" -> set_noreply(st, a.key, a.value, a.flags, a.expiration, opaque)
      [] op = "add_noreply" -> add_noreply(st, a.key, a.value, a.flags, a.expiration, opaque)
      [] op = "delete_noreply" -> delete_noreply(st, a.key, opaque)
      [] op = "replace_noreply" ->
             replace_noreply(st, a.key, a.value, a.flags, a.expiration, opaque)
      [] op = "increment_noreply" ->
             increment_noreply(st, a.key, a.amount, a.initial, a.expiration, opaque)
      [] op = "decrement_noreply" ->
             decrement_noreply(st, a.key, a.amount, a.initial, a.expiration, opaque)
      [] op = "append_noreply" -> append_noreply(st, a.key, a.value, opaque)
      [] op = "prepend_noreply" -> prepend_noreply(st, a.key, a.value, opaque)
      [] op = "set_cas" -> set_cas(st, a.key, a.value, a.flags, a.expiration, a.cas, opaque)
      [] op = "add_cas" -> add_cas(st, a.key, a.value, a.flags, a.expiration, opaque)
      [] op = "replace_cas" ->
             replace_cas(st, a.key, a.value, a.flags, a.expiration, a.cas, opaque)
      [] op = "get_cas" -> get_cas(st, a.key, opaque)
      [] op = "getk_cas" -> getk_cas(st, a.key, opaque)
      [] op = "increment_cas" ->
             increment_cas(st, a.key, a.amount, a.initial, a.expiration, a.cas, opaque)
      [] op = "decrement_cas" ->
             decrement_cas(st, a.key, a.amount, a.initial, a.expiration, a.cas, opaque)
      [] op = "append_cas" -> append_cas(st, a.key, a.value, a.cas, opaque)
      [] op = "prepend_cas" -> prepend_cas(st, a.key, a.value, a.cas, opaque)
      [] op = "touch_cas" -> touch_cas(st, a.key, a.expiration, a.cas, opaque)

OperationNames ==
    { "set", "add", "delete", "replace", "get", "getk", "increment", "decrement",
      "append", "prepend", "touch" }

NoReplyOperationNames ==
    { "set_noreply", "add_noreply", "delete_noreply", "replace_noreply",
      "increment_noreply", "decrement_noreply", "append_noreply", "prepend_noreply" }

CasOperationNames ==
    { "set_cas", "add_cas", "replace_cas", "get_cas", "getk_cas", "increment_cas",
      "decrement_cas", "append_cas", "prepend_cas", "touch_cas" }

\* the driver method the body of Client's method op calls: its own name,
\* except that Client::decrement calls proto.increment
forwards_to(op) == IF op = "decrement" THEN "increment" ELSE op

\* impl Operation for Client: find_server_by_key(key), then the driver's method
Client_Operation(op, a) ==
    LET server == find_server_by_key(a.key)
    IN  /\ nops < MaxClientOps
        /\ Do("client", op, "simple", server, a,
              proto_call(forwards_to(op), Conn(server, "simple"), a, draw(1)))

\* impl NoReplyOperation for Client
Client_NoReplyOperation(op, a) ==
    LET server == find_server_by_key(a.key)
    IN  /\ nops < MaxClientOps
        /\ Do("client", op, "noreply", server, a,
              proto_call(forwards_to(op), Conn(server, "noreply"), a, draw(1)))

\* impl CasOperation for Client
Client_CasOperation(op, a) ==
    LET server == find_server_by_key(a.key)
    IN  /\ nops < MaxClientOps
        /\ Do("client", op, "cas", server, a,
              proto_call(forwards_to(op), Conn(server, "cas"), a, draw(1)))

-----------------------------------------------------------------------------
(* SpecClient: a Client over one or two servers whose caller uses the      *)
(* single-key operations                                                   *)

ClientPayloads == { [value |-> <<53>>, flags |-> 2] }

\* the tokens a caller passes: the current version of the key and another
ClientTokens(key) == Tokens(find_server_by_key(key), key) \ {0}

\* the arguments a caller passes to operation op for a key
ArgsOf(op, key) ==
    LET toks == IF op \in CasWrites \ {"add_cas"} THEN ClientTokens(key) ELSE {0}
    IN  IF op \in {"set", "add", "replace", "set_noreply", "add_noreply", "replace_noreply",
                   "set_cas", "add_cas", "replace_cas"}
        THEN { [StoreArgs(key, p.value, p.flags, e) EXCEPT !.cas = c] :
                 p \in ClientPayloads, e \in Expirations, c \in toks }
        ELSE IF op \in {"increment", "decrement", "increment_noreply", "decrement_noreply",
                        "increment_cas", "decrement_cas"}
        THEN { [CounterArgs(key, a, i, e) EXCEPT !.cas = c] :
                 a \in Amounts, i \in Initials, e \in Expirations, c \in toks }
        ELSE IF op \in {"append", "prepend", "append_noreply", "prepend_noreply",
                        "append_cas", "prepend_cas"}
        THEN { [StoreArgs(key, p.value, 0, 0) EXCEPT !.cas = c] :
                 p \in ClientPayloads, c \in toks }
        ELSE IF op \in {"touch", "touch_cas"}
        THEN { [StoreArgs(key, <<>>, 0, e) EXCEPT !.cas = c] : e \in Expirations, c \in toks }
        ELSE { KeyArgs(key) }

NextClient ==
    \/ \E op \in OperationNames, key \in Keys : \E a \in ArgsOf(op, key) :
           Client_Operation(op, a)
    \/ \E op \in NoReplyOperationNames, key \in Keys : \E a \in ArgsOf(op, key) :
           Client_NoReplyOperation(op, a)
    \/ \E op \in CasOperationNames, key \in Keys : \E a \in ArgsOf(op, key) :
           Client_CasOperation(op, a)

SpecClient == InitClient /\ [][NextClient]_vars

-----------------------------------------------------------------------------
(* SpecRouter: a Client from its construction on, whose caller uses the    *)
(* multi-key operations and set and get                                    *)

\* ConsistentHash::len: the number of entries of the ring's map, one per
\* replica of a server
len(ring) == Cardinality(ring)

\* a failed assert!, assert_eq!, unwrap() or index: the call does not return
Panic == NoReturn("panic")

\* the server lists a caller passes to Client::connect
ConnectLists ==
    ServerLists \cup { <<>>, << [addr |-> "s1", weight |-> 1] >> }

\* no Client yet
InitRouter == InitWith(<<>>)

\* a loop that passes over the servers it cannot connect to
connect_any(list, good) ==
    [ result |-> Ok(<<>>), dialled |-> [n \in 1..Len(list) |-> list[n].addr] ]

\* the for loop of Client::conn: Server::connect(addr)? for each server of
\* the list in order; good are the servers whose connect returns Ok.  The
\* outcome is the loop's result and the addresses dialled.
RECURSIVE connect_each(_, _)
connect_each(list, good) ==
    IF list = <<>> THEN [result |-> Ok(<<>>), dialled |-> <<>>]
    ELSE IF Head(list).addr \notin good
    THEN [result |-> NoReturn("io"), dialled |-> << Head(list).addr >>]
    ELSE LET Rest(c) == [c EXCEPT !.dialled = << Head(list).addr >> \o @]
         IN  Rest(connect_each(Tail(list), good))

\* Client::conn.  up: the servers that accept a connection; sasl: whether
\* credentials are given; accepting: the servers whose auth_start answers
\* Succeeded.  A record of the call is left in last, with the addresses
\* dialled and those of the list whose connect fails.
Client_conn(list, up, sasl, accepting) ==
    LET Built(good, c) ==
            /\ svrs' = IF c.result.tag = "Ok" THEN list ELSE <<>>
            /\ last' = [ layer |-> "client", op |-> "connect", kind |-> "connect",
                         conn |-> "s1", args |-> [NoArgs EXCEPT !.keys = list],
                         opaque |-> 0, st0 |-> Conn("s1", "connect"),
                         st |-> Conn("s1", "connect"), result |-> c.result,
                         dialled |-> c.dialled,
                         refused |-> {list[n].addr : n \in 1..Len(list)} \ good ]
        Connected(good) ==
            Built(good, IF list = <<>> THEN [result |-> Panic, dialled |-> <<>>]
                        ELSE connect_each(list, good))
    IN  /\ svrs = <<>>
        /\ Connected(IF sasl THEN up \cap accepting ELSE up)
        /\ UNCHANGED <<store, casid, stream, closed, reqs, tok, failed, nops>>

\* server.borrow_mut().proto.<op>(..) of a multi-key operation
proto_call_multi(op, st, a) ==
    CASE op = "set_multi" -> set_multi(st, a.kv, draw(1))
      [] op = "delete_multi" -> delete_multi(st, a.keys, draw(1))
      [] op = "increment_multi" ->
             increment_multi(st, a.kv, a.keys, [i \in 1..Len(a.keys) |-> draw(i)],
                             draw(Len(a.keys) + 1))
      [] op = "get_multi" -> get_multi(st, a.keys, draw(1))

MultiOperationNames == { "set_multi", "delete_multi", "increment_multi", "get_multi" }

\* impl MultiOperation for Client: assert_eq!(self.servers.len(), 1), then
\* the server of the first key (keys[0], or kv.keys().next().unwrap(), which
\* panic when there is no key), then that server's operation
Client_MultiOperation(op, a) ==
    /\ svrs # <<>>
    /\ nops < MaxClientOps
    /\ IF len(servers) # 1 \/ a.keys = <<>>
       THEN /\ nops' = nops + 1
            /\ last' = [ layer |-> "client", op |-> op, kind |-> "multi", conn |-> "s1",
                         args |-> a, opaque |-> draw(1), st0 |-> Conn("s1", "multi"),
                         st |-> Conn("s1", "multi"), result |-> Panic ]
            /\ UNCHANGED <<svrs, store, casid, stream, closed, reqs, tok, failed>>
       ELSE Do("client", op, "multi", find_server_by_key(a.keys[1]), a,
               proto_call_multi(op, Conn(find_server_by_key(a.keys[1]), "multi"), a))

\* the arguments a caller passes to a multi-key operation
MultiArgsOf(op) ==
    IF op = "set_multi"
    THEN { [NoArgs EXCEPT !.kv = kv, !.keys = into_iter(DOMAIN kv)] : kv \in SetMaps }
    ELSE IF op = "increment_multi"
    THEN UNION { { [NoArgs EXCEPT !.kv = kv, !.keys = order] : order \in Orders(DOMAIN kv) } :
                   kv \in CounterMaps }
    ELSE { [NoArgs EXCEPT !.keys = keys] : keys \in KeyLists }

NextRouter ==
    \/ \E list \in ConnectLists, up \in SUBSET Addrs, sasl \in BOOLEAN :
           \E accepting \in SUBSET Addrs : Client_conn(list, up, sasl, accepting)
    \/ \E op \in MultiOperationNames : \E a \in MultiArgsOf(op) :
           Client_MultiOperation(op, a)
    \/ \E op \in {"set", "get"}, key \in Keys : \E a \in ArgsOf(op, key) :
           svrs # <<>> /\ Client_Operation(op, a)

SpecRouter == InitRouter /\ [][NextRouter]_vars

-----------------------------------------------------------------------------
(* Client::connect_sasl and Server::connect (src/src/client/mod.rs): the    *)
(* address names a scheme, tcp or unix; credentials are sent with           *)
(* auth_start("PLAIN", ..) where the code does so.                          *)

Schemes == {"tcp", "unix", "udp"}

\* Option<Sasl>: None is <<>>, Some(sasl) is << sasl >>
SaslOptions ==
    { <<>>,
      << [username |-> <<117>>, password |-> <<112>>] >>,
      << [username |-> <<117>>, password |-> <<120>>] >> }

\* a server as a connect finds it: whether it accepts the connection, and
\* its SASL set-up
Setups == [up : BOOLEAN, sasl : SaslModes]

\* format!("\x00{}\x00{}", sasl.username, sasl.password)
auth_str(sasl) == <<0>> \o sasl.username \o <<0>> \o sasl.password

Connected(st, auth) == [st |-> st, result |-> Ok(<<>>), auth |-> auth]
NotConnected(st, tag, auth) == [st |-> st, result |-> NoReturn(tag), auth |-> auth]

\* Server::connect.  st is the new connection; cfg_unix tells whether the
\* build has the #[cfg(unix)] arm.  The outcome names how the auth_start
\* exchange ended, "none" when there was none.
Server_connect(scheme, o_sasl, setup, cfg_unix, st, opaque) ==
    IF scheme = "tcp"
    THEN IF ~setup.up THEN NotConnected(st, "io", "none")
         ELSE IF o_sasl = <<>> THEN Connected(st, "none")
         ELSE LET Matched(r) ==
                      IF r.result.tag = "Err" THEN NotConnected(r.st, "io", "Err")
                      ELSE IF r.result.tag # "Ok"
                      THEN NotConnected(r.st, r.result.tag, "none")
                      ELSE IF r.result.val = Succeeded THEN Connected(r.st, "Succeeded")
                      ELSE NotConnected(r.st, "io", r.result.val.auth)
              IN  Matched(auth_start(st, PLAIN, auth_str(o_sasl[1]), opaque))
    ELSE IF scheme = "unix" /\ cfg_unix
    THEN IF ~setup.up THEN NotConnected(st, "io", "none")
         ELSE Connected(st, "none")
    ELSE NotConnected(st, "panic", "none")

\* the for loop of Client::conn over the list, Server::connect(..)? for each
\* server in order; acc holds the connections made so far
RECURSIVE conn_loop(_, _, _, _, _, _)
conn_loop(list, scheme, o_sasl, setup, cfg_unix, acc) ==
    IF list = <<>> THEN acc
    ELSE LET s == Head(list).addr
             Step(c) ==
                 IF c.result.tag # "Ok"
                 THEN [acc EXCEPT !.result = c.result, !.st[s] = c.st, !.auth[s] = c.auth,
                                  !.held = {}, !.reqs = c.st.reqs]
                 ELSE conn_loop(Tail(list), scheme, o_sasl, setup, cfg_unix,
                                [acc EXCEPT !.st[s] = c.st, !.auth[s] = c.auth,
                                            !.held = @ \cup {s}, !.reqs = c.st.reqs])
         IN  Step(Server_connect(scheme[s], o_sasl, setup[s], cfg_unix,
                                 [acc.st[s] EXCEPT !.reqs = acc.reqs, !.sasl = setup[s].sasl],
                                 acc.reqs + 1))

\* Client::conn(svrs, p, sasl, opts), as connect (sasl None) and connect_sasl
\* call it; the first construction of a behaviour
Client_conn_sasl(list, scheme, o_sasl, setup, cfg_unix) ==
    LET Built(c) ==
            /\ svrs' = IF c.result.tag = "Ok" THEN list ELSE <<>>
            /\ store' = [s \in Addrs |-> c.st[s].store]
            /\ casid' = [s \in Addrs |-> c.st[s].casid]
            /\ stream' = [s \in Addrs |-> c.st[s].stream]
            /\ closed' = [s \in Addrs |-> c.st[s].closed]
            /\ reqs' = c.reqs
            /\ last' = [ layer |-> "client",
                         op |-> IF o_sasl = <<>> THEN "connect" ELSE "connect_sasl",
                         kind |-> "conn", conn |-> "s1",
                         args |-> [NoArgs EXCEPT !.keys = list],
                         opaque |-> 0, st0 |-> Conn("s1", "conn"), st |-> c.st["s1"],
                         result |-> c.result, scheme |-> scheme, setup |-> setup,
                         o_sasl |-> o_sasl, sts |-> c.st, auth |-> c.auth,
                         held |-> c.held ]
    IN  /\ svrs = <<>>
        /\ last.op = "none"
        /\ list # <<>>
        /\ Built(conn_loop(list, scheme, o_sasl, setup, cfg_unix,
                           [ result |-> Ok(<<>>), st |-> [s \in Addrs |-> Conn(s, "conn")],
                             auth |-> [s \in Addrs |-> "none"], held |-> {},
                             reqs |-> reqs ]))
        /\ UNCHANGED <<tok, failed, nops>>

NextConnect ==
    \E list \in ServerLists, scheme \in [Addrs -> Schemes], o_sasl \in SaslOptions :
        \E setup \in [Addrs -> Setups], cfg_unix \in BOOLEAN :
            Client_conn_sasl(list, scheme, o_sasl, setup, cfg_unix)

SpecConnect == InitRouter /\ [][NextConnect]_vars

-----------------------------------------------------------------------------
(* The wire form of a request (src/src/proto/binarydef.rs): a header of    *)
(* 24 bytes, then the extras, the key and the value.  A codec behaviour    *)
(* starts from a payload, builds the header from it, writes the packet     *)
(* and reads it back.                                                      *)

MAGIC_REQUEST == 128
MAGIC_RESPONSE == 129

\* mod consts: the wire value of every status and of every opcode
consts ==
    [
      STATUS_NO_ERROR |-> 0, STATUS_KEY_NOT_FOUND |-> 1, STATUS_KEY_EXISTS |-> 2,
      STATUS_VALUE_TOO_LARGE |-> 3, STATUS_INVALID_ARGUMENTS |-> 4,
      STATUS_ITEM_NOT_STORED |-> 5, STATUS_INCR_OR_DECR_ON_NON_NUMERIC_VALUE |-> 6,
      STATUS_VBUCKET_BELONGS_TO_OTHER_SERVER |-> 7, STATUS_AUTHENTICATION_ERROR |-> 8,
      STATUS_AUTHENTICATION_CONTINUE |-> 9, STATUS_UNKNOWN_COMMAND |-> 129,
      STATUS_OUT_OF_MEMORY |-> 130, STATUS_NOT_SUPPORTED |-> 131,
      STATUS_INTERNAL_ERROR |-> 132, STATUS_BUSY |-> 133,
      STATUS_TEMPORARY_FAILURE |-> 134, STATUS_AUTHENTICATION_REQUIRED |-> 32,
      STATUS_AUTHENTICATION_FURTHER_STEP_REQUIRED |-> 33, OPCODE_GET |-> 0,
      OPCODE_SET |-> 1, OPCODE_ADD |-> 2, OPCODE_REPLACE |-> 3, OPCODE_DEL |-> 4,
      OPCODE_INCR |-> 5, OPCODE_DECR |-> 6, OPCODE_QUIT |-> 7, OPCODE_FLUSH |-> 8,
      OPCODE_GETQ |-> 9, OPCODE_NOP |-> 10, OPCODE_VERSION |-> 11, OPCODE_GETK |-> 12,
      OPCODE_GETKQ |-> 13, OPCODE_APPEND |-> 14, OPCODE_PREPEND |-> 15,
      OPCODE_STAT |-> 16, OPCODE_SETQ |-> 17, OPCODE_ADDQ |-> 18,
      OPCODE_REPLACEQ |-> 19, OPCODE_DELQ |-> 20, OPCODE_INCRQ |-> 21,
      OPCODE_DECRQ |-> 22, OPCODE_QUITQ |-> 23, OPCODE_FLUSHQ |-> 24,
      OPCODE_APPENDQ |-> 25, OPCODE_PREPENDQ |-> 26, OPCODE_VERBOSITY |-> 27,
      OPCODE_TOUCH |-> 28, OPCODE_GAT |-> 29, OPCODE_GATQ |-> 30,
      OPCODE_SASL_LIST_MECHS |-> 32, OPCODE_SASL_AUTH |-> 33, OPCODE_SASL_STEP |-> 34,
      OPCODE_RGET |-> 48, OPCODE_RSET |-> 49, OPCODE_RSETQ |-> 50,
      OPCODE_RAPPEND |-> 51, OPCODE_RAPPENDQ |-> 52, OPCODE_RPREPEND |-> 53,
      OPCODE_RPREPENDQ |-> 54, OPCODE_RDEL |-> 55, OPCODE_RDELQ |-> 56,
      OPCODE_RINCR |-> 57, OPCODE_RINCRQ |-> 58, OPCODE_RDECR |-> 59,
      OPCODE_RDECRQ |-> 60, OPCODE_SET_VBUCKET |-> 61, OPCODE_GET_VBUCKET |-> 62,
      OPCODE_DEL_VBUCKET |-> 63, OPCODE_TAP_CONNECT |-> 64, OPCODE_TAP_MUTATION |-> 65,
      OPCODE_TAP_DEL |-> 66, OPCODE_TAP_FLUSH |-> 67, OPCODE_TAP_OPAQUE |-> 68,
      OPCODE_TAP_VBUCKET_SET |-> 69, OPCODE_TAP_CHECKPOINT_START |-> 70,
      OPCODE_TAP_CHECKPOINT_END |-> 71 ]

\* enum Status and enum Command: the constant that is a variant's discriminant
Status ==
    [
      NoError |-> "STATUS_NO_ERROR", KeyNotFound |-> "STATUS_KEY_NOT_FOUND",
      KeyExists |-> "STATUS_KEY_EXISTS", ValueTooLarge |-> "STATUS_VALUE_TOO_LARGE",
      InvalidArguments |-> "STATUS_INVALID_ARGUMENTS",
      ItemNotStored |-> "STATUS_ITEM_NOT_STORED",
      IncrDecrOnNonNumericValue |-> "STATUS_INCR_OR_DECR_ON_NON_NUMERIC_VALUE",
      VBucketBelongsToOtherServer |-> "STATUS_VBUCKET_BELONGS_TO_OTHER_SERVER",
      AuthenticationError |-> "STATUS_AUTHENTICATION_ERROR",
      AuthenticationContinue |-> "STATUS_AUTHENTICATION_CONTINUE",
      UnknownCommand |-> "STATUS_UNKNOWN_COMMAND",
      OutOfMemory |-> "STATUS_OUT_OF_MEMORY", NotSupported |-> "STATUS_NOT_SUPPORTED",
      InternalError |-> "STATUS_INTERNAL_ERROR", Busy |-> "STATUS_BUSY",
      TemporaryFailure |-> "STATUS_TEMPORARY_FAILURE",
      AuthenticationRequired |-> "STATUS_AUTHENTICATION_REQUIRED",
      AuthenticationFurtherStepRequired |-> "STATUS_AUTHENTICATION_FURTHER_STEP_REQUIRED" ]

Command ==
    [
      Get |-> "OPCODE_GET", Set |-> "OPCODE_SET", Add |-> "OPCODE_ADD",
      Replace |-> "OPCODE_REPLACE", Delete |-> "OPCODE_DEL",
      Increment |-> "OPCODE_INCR", Decrement |-> "OPCODE_DECR", Quit |-> "OPCODE_QUIT",
      Flush |-> "OPCODE_FLUSH", GetQuietly |-> "OPCODE_GETQ", Noop |-> "OPCODE_NOP",
      Version |-> "OPCODE_VERSION", GetKey |-> "OPCODE_GETK",
      GetKeyQuietly |-> "OPCODE_GETKQ", Append |-> "OPCODE_APPEND",
      Prepend |-> "OPCODE_PREPEND", Stat |-> "OPCODE_STAT",
      SetQuietly |-> "OPCODE_SETQ", AddQuietly |-> "OPCODE_ADDQ",
      ReplaceQuietly |-> "OPCODE_REPLACEQ", DeleteQuietly |-> "OPCODE_DELQ",
      IncrementQuietly |-> "OPCODE_INCRQ", DecrementQuietly |-> "OPCODE_DECRQ",
      QuitQuietly |-> "OPCODE_QUITQ", FlushQuietly |-> "OPCODE_FLUSHQ",
      AppendQuietly |-> "OPCODE_APPENDQ", PrependQuietly |-> "OPCODE_PREPENDQ",
      Verbosity |-> "OPCODE_VERBOSITY", Touch |-> "OPCODE_TOUCH",
      GetAndTouch |-> "OPCODE_GAT", GetAndTouchQuietly |-> "OPCODE_GATQ",
      SaslListMechanisms |-> "OPCODE_SASL_LIST_MECHS",
      SaslAuthenticate |-> "OPCODE_SASL_AUTH", SaslStep |-> "OPCODE_SASL_STEP",
      RGet |-> "OPCODE_RGET", RSet |-> "OPCODE_RSET", RSetQuietly |-> "OPCODE_RSETQ",
      RAppend |-> "OPCODE_RAPPEND", RAppendQuietly |-> "OPCODE_RAPPENDQ",
      RPrepend |-> "OPCODE_RPREPEND", RPrependQuietly |-> "OPCODE_RPREPENDQ",
      RDelete |-> "OPCODE_RDEL", RDeleteQuietly |-> "OPCODE_RDELQ",
      RIncrement |-> "OPCODE_RINCR", RIncrementQuietly |-> "OPCODE_RINCRQ",
      RDecrement |-> "OPCODE_RDECR", RDecrementQuietly |-> "OPCODE_RDECRQ",
      SetVBucket |-> "OPCODE_SET_VBUCKET", GetVBucket |-> "OPCODE_GET_VBUCKET",
      DelVBucket |-> "OPCODE_DEL_VBUCKET", TapConnect |-> "OPCODE_TAP_CONNECT",
      TapMutation |-> "OPCODE_TAP_MUTATION", TapDelete |-> "OPCODE_TAP_DEL",
      TapFlush |-> "OPCODE_TAP_FLUSH", TapOpaque |-> "OPCODE_TAP_OPAQUE",
      TapVBucketSet |-> "OPCODE_TAP_VBUCKET_SET",
      TapCheckpointStart |-> "OPCODE_TAP_CHECKPOINT_START",
      TapCheckpointEnd |-> "OPCODE_TAP_CHECKPOINT_END" ]

\* the arms of the match of Status::from_u16 and of Command::from_u8, in the
\* order of the source: the constant matched, then the variant returned
Status_from_u16_arms ==
    <<
      <<"STATUS_NO_ERROR", "NoError">>, <<"STATUS_KEY_NOT_FOUND", "KeyNotFound">>,
      <<"STATUS_KEY_EXISTS", "KeyExists">>,
      <<"STATUS_VALUE_TOO_LARGE", "ValueTooLarge">>,
      <<"STATUS_INVALID_ARGUMENTS", "InvalidArguments">>,
      <<"STATUS_ITEM_NOT_STORED", "ItemNotStored">>,
      <<"STATUS_INCR_OR_DECR_ON_NON_NUMERIC_VALUE", "IncrDecrOnNonNumericValue">>,
      <<"STATUS_VBUCKET_BELONGS_TO_OTHER_SERVER", "VBucketBelongsToOtherServer">>,
      <<"STATUS_AUTHENTICATION_ERROR", "AuthenticationError">>,
      <<"STATUS_AUTHENTICATION_CONTINUE", "AuthenticationContinue">>,
      <<"STATUS_UNKNOWN_COMMAND", "UnknownCommand">>,
      <<"STATUS_OUT_OF_MEMORY", "OutOfMemory">>,
      <<"STATUS_NOT_SUPPORTED", "NotSupported">>,
      <<"STATUS_INTERNAL_ERROR", "InternalError">>, <<"STATUS_BUSY", "Busy">>,
      <<"STATUS_TEMPORARY_FAILURE", "TemporaryFailure">>,
      <<"STATUS_AUTHENTICATION_REQUIRED", "AuthenticationRequired">>,
      <<"STATUS_AUTHENTICATION_FURTHER_STEP_REQUIRED", "AuthenticationFurtherStepRequired">> >>

Command_from_u8_arms ==
    <<
      <<"OPCODE_GET", "Get">>, <<"OPCODE_SET", "Set">>, <<"OPCODE_ADD", "Add">>,
      <<"OPCODE_REPLACE", "Replace">>, <<"OPCODE_DEL", "Delete">>,
      <<"OPCODE_INCR", "Increment">>, <<"OPCODE_DECR", "Decrement">>,
      <<"OPCODE_QUIT", "Quit">>, <<"OPCODE_FLUSH", "Flush">>,
      <<"OPCODE_GETQ", "GetQuietly">>, <<"OPCODE_NOP", "Noop">>,
      <<"OPCODE_VERSION", "Version">>, <<"OPCODE_GETK", "GetKey">>,
      <<"OPCODE_GETKQ", "GetKeyQuietly">>, <<"OPCODE_APPEND", "Append">>,
      <<"OPCODE_PREPEND", "Prepend">>, <<"OPCODE_STAT", "Stat">>,
      <<"OPCODE_SETQ", "SetQuietly">>, <<"OPCODE_ADDQ", "AddQuietly">>,
      <<"OPCODE_REPLACEQ", "ReplaceQuietly">>, <<"OPCODE_DELQ", "DeleteQuietly">>,
      <<"OPCODE_INCRQ", "IncrementQuietly">>, <<"OPCODE_DECRQ", "DecrementQuietly">>,
      <<"OPCODE_QUITQ", "QuitQuietly">>, <<"OPCODE_FLUSHQ", "FlushQuietly">>,
      <<"OPCODE_APPENDQ", "AppendQuietly">>, <<"OPCODE_PREPENDQ", "PrependQuietly">>,
      <<"OPCODE_VERBOSITY", "Verbosity">>, <<"OPCODE_TOUCH", "Touch">>,
      <<"OPCODE_GAT", "GetAndTouch">>, <<"OPCODE_GATQ", "GetAndTouchQuietly">>,
      <<"OPCODE_SASL_LIST_MECHS", "SaslListMechanisms">>,
      <<"OPCODE_SASL_AUTH", "SaslAuthenticate">>, <<"OPCODE_SASL_STEP", "SaslStep">>,
      <<"OPCODE_RGET", "RGet">>, <<"OPCODE_RSET", "RSet">>,
      <<"OPCODE_RSETQ", "RSetQuietly">>, <<"OPCODE_RAPPEND", "RAppend">>,
      <<"OPCODE_RAPPENDQ", "RAppendQuietly">>, <<"OPCODE_RPREPEND", "RPrepend">>,
      <<"OPCODE_RPREPENDQ", "RPrependQuietly">>, <<"OPCODE_RDEL", "RDelete">>,
      <<"OPCODE_RDELQ", "RDeleteQuietly">>, <<"OPCODE_RINCR", "RIncrement">>,
      <<"OPCODE_RINCRQ", "RIncrementQuietly">>, <<"OPCODE_RDECR", "RDecrement">>,
      <<"OPCODE_RDECRQ", "RDecrementQuietly">>, <<"OPCODE_SET_VBUCKET", "SetVBucket">>,
      <<"OPCODE_GET_VBUCKET", "GetVBucket">>, <<"OPCODE_DEL_VBUCKET", "DelVBucket">>,
      <<"OPCODE_TAP_CONNECT", "TapConnect">>, <<"OPCODE_TAP_MUTATION", "TapMutation">>,
      <<"OPCODE_TAP_DEL", "TapDelete">>, <<"OPCODE_TAP_FLUSH", "TapFlush">>,
      <<"OPCODE_TAP_OPAQUE", "TapOpaque">>,
      <<"OPCODE_TAP_VBUCKET_SET", "TapVBucketSet">>,
      <<"OPCODE_TAP_CHECKPOINT_START", "TapCheckpointStart">>,
      <<"OPCODE_TAP_CHECKPOINT_END", "TapCheckpointEnd">> >>

\* a match on a code: the variant of the first arm whose constant is the code,
\* "None" where only the wildcard arm is left
match(arms, code) ==
    IF \E i \in 1..Len(arms) : consts[arms[i][1]] = code
    THEN LET first == CHOOSE i \in 1..Len(arms) :
                         /\ consts[arms[i][1]] = code
                         /\ \A j \in 1..(i - 1) : consts[arms[j][1]] # code
         IN  arms[first][2]
    ELSE "None"

\* the position of a variant in the enum, counted from zero
Command_ordinal(cmd) ==
    (CHOOSE i \in 1..Len(Command_from_u8_arms) : Command_from_u8_arms[i][2] = cmd) - 1

\* a status decoded with a default where the code is unknown
Status_or_NoError(code) ==
    IF match(Status_from_u16_arms, code) = "None" THEN "NoError"
    ELSE match(Status_from_u16_arms, code)

\* Command::to_u8 (self as u8) and Command::from_u8
Command_to_u8(cmd) == consts[Command[cmd]]

Command_from_u8(code) == match(Command_from_u8_arms, code)

\* Status::to_u16 (self as u16) and Status::from_u16
Status_to_u16(status) == consts[Status[status]]

Status_from_u16(code) == match(Status_from_u16_arms, code)

\* DataType::to_u8 and DataType::from_u8: raw bytes is the only data type
DataType_to_u8(dtype) == IF dtype = "RawBytes" THEN 0 ELSE 255

DataType_from_u8(code) == IF code = 0 THEN "RawBytes" ELSE "None"

\* a two-byte field written least significant byte first
U16LE(n) == << n % 256, (n \div 256) % 256 >>

\* write_u16::<BigEndian> and read_u16::<BigEndian>
U16BE(n) == << (n \div 256) % 256, n % 256 >>

ReadU16BE(b) == b[1] * 256 + b[2]

\* RequestHeader::write_to: the 24 bytes of the header, field by field
RequestHeader_write_to(h) ==
    << MAGIC_REQUEST, Command_to_u8(h.command) >>
        \o U16BE(h.key_len)
        \o << h.extra_len, DataType_to_u8(h.data_type) >>
        \o U16BE(h.vbucket_id)
        \o U32BE(h.body_len)
        \o U32BE(h.opaque)
        \o U64BE(h.cas)

\* an io::Error out of a read, with the number of bytes the reader gave up
\* before it
CodecErr(error, consumed) == [tag |-> "Err", error |-> error, consumed |-> consumed]

\* RequestHeader::read_from: the fields in the order they were written; a short
\* read, a foreign magic byte, an unknown opcode or data type is an error
RequestHeader_read_from(b) ==
    IF Len(b) < 1 THEN CodecErr("UnexpectedEof", Len(b))
    ELSE IF b[1] # MAGIC_REQUEST THEN CodecErr("Invalid magic", 1)
    ELSE IF Len(b) < 2 THEN CodecErr("UnexpectedEof", Len(b))
    ELSE IF Command_from_u8(b[2]) = "None" THEN CodecErr("Invalid command", 2)
    ELSE IF Len(b) < 6 THEN CodecErr("UnexpectedEof", Len(b))
    ELSE IF DataType_from_u8(b[6]) = "None" THEN CodecErr("Invalid data type", 6)
    ELSE IF Len(b) < 24 THEN CodecErr("UnexpectedEof", Len(b))
    ELSE [ tag      |-> "Ok",
           consumed |-> 24,
           header   |-> [ command    |-> Command_from_u8(b[2]),
                          key_len    |-> ReadU16BE(SubSeq(b, 3, 4)),
                          extra_len  |-> b[5],
                          data_type  |-> DataType_from_u8(b[6]),
                          vbucket_id |-> ReadU16BE(SubSeq(b, 7, 8)),
                          body_len   |-> ReadU32BE(SubSeq(b, 9, 12)),
                          opaque     |-> ReadU32BE(SubSeq(b, 13, 16)),
                          cas        |-> ReadU64BE(SubSeq(b, 17, 24)) ] ]

\* ResponseHeader::new
ResponseHeader_new(command, data_type, status, opaque, cas, key_len, extra_len, body_len) ==
    [ command   |-> command,
      key_len   |-> key_len,
      extra_len |-> extra_len,
      data_type |-> data_type,
      status    |-> status,
      body_len  |-> body_len,
      opaque    |-> opaque,
      cas       |-> cas ]

\* ResponseHeader::write_to: as the request's, with the response magic and the
\* status where the request has the vbucket id
ResponseHeader_write_to(h) ==
    << MAGIC_RESPONSE, Command_to_u8(h.command) >>
        \o U16BE(h.key_len)
        \o << h.extra_len, DataType_to_u8(h.data_type) >>
        \o U16BE(Status_to_u16(h.status))
        \o U32BE(h.body_len)
        \o U32BE(h.opaque)
        \o U64BE(h.cas)

\* ResponseHeader::read_from: as the request's, and an unknown status is an error
ResponseHeader_read_from(b) ==
    IF Len(b) < 1 THEN CodecErr("UnexpectedEof", Len(b))
    ELSE IF b[1] # MAGIC_RESPONSE THEN CodecErr("Invalid magic", 1)
    ELSE IF Len(b) < 2 THEN CodecErr("UnexpectedEof", Len(b))
    ELSE IF Command_from_u8(b[2]) = "None" THEN CodecErr("Invalid command", 2)
    ELSE IF Len(b) < 6 THEN CodecErr("UnexpectedEof", Len(b))
    ELSE IF DataType_from_u8(b[6]) = "None" THEN CodecErr("Invalid data type", 6)
    ELSE IF Len(b) < 8 THEN CodecErr("UnexpectedEof", Len(b))
    ELSE IF Status_from_u16(ReadU16BE(SubSeq(b, 7, 8))) = "None"
    THEN CodecErr("Invalid status", 8)
    ELSE IF Len(b) < 24 THEN CodecErr("UnexpectedEof", Len(b))
    ELSE [ tag      |-> "Ok",
           consumed |-> 24,
           header   |-> ResponseHeader_new(Command_from_u8(b[2]),
                                           DataType_from_u8(b[6]),
                                           Status_from_u16(ReadU16BE(SubSeq(b, 7, 8))),
                                           ReadU32BE(SubSeq(b, 13, 16)),
                                           ReadU64BE(SubSeq(b, 17, 24)),
                                           ReadU16BE(SubSeq(b, 3, 4)),
                                           b[5],
                                           ReadU32BE(SubSeq(b, 9, 12))) ]

\* RequestPacket::new: the header is built from the three segments
RequestPacket_new(cmd, dtype, vbid, opaque, cas, extra, key, value) ==
    [ header |-> from_payload(cmd, dtype, vbid, opaque, cas, key, extra, value),
      extra  |-> extra,
      key    |-> key,
      value  |-> value ]

\* a packet laid out with the key ahead of the extras
RequestPacket_write_key_first(p) ==
    RequestHeader_write_to(p.header) \o p.key \o p.extra \o p.value

\* RequestPacket::write_to (RequestPacketRef::write_to is the same): the header,
\* then each segment in full, whatever the header says of its length
RequestPacket_write_to(p) ==
    RequestHeader_write_to(p.header) \o p.extra \o p.key \o p.value

\* RequestPacket::read_from: the header, then a buffer of body_len bytes split
\* at extra_len and at key_len, the value being what is left.  split_to panics
\* where the buffer is shorter than the split point; read_exact fails where the
\* reader runs out.  rest is what the reader still holds afterwards
RequestPacket_read_from(b) ==
    LET Segments(h, body) ==
            IF h.extra_len > h.body_len \/ h.key_len > h.body_len - h.extra_len
            THEN [tag |-> "panic", error |-> "split_to out of bounds", rest |-> body]
            ELSE IF Len(body) < h.body_len
            THEN [tag |-> "Err", error |-> "UnexpectedEof", rest |-> <<>>]
            ELSE [ tag    |-> "Ok",
                   packet |-> [ header |-> h,
                                extra  |-> SubSeq(body, 1, h.extra_len),
                                key    |-> SubSeq(body, h.extra_len + 1,
                                                  h.extra_len + h.key_len),
                                value  |-> SubSeq(body, h.extra_len + h.key_len + 1,
                                                  h.body_len) ],
                   rest   |-> SubSeq(body, h.body_len + 1, Len(body)) ]
        AfterHeader(hd) ==
            IF hd.tag # "Ok" THEN [tag |-> hd.tag, error |-> hd.error, rest |-> <<>>]
            ELSE Segments(hd.header, SubSeq(b, 25, Len(b)))
    IN  AfterHeader(RequestHeader_read_from(b))

\* the payloads a codec behaviour starts from.  The lengths are drawn and the
\* bytes are filled in when a function is applied, each position with its own
\* value, so that a state holds the lengths and not the bytes
CodecCommands == {"Get", "SetQuietly", "Touch"}
CodecVbuckets == {0, 258}
CodecOpaques == {0, 16909060}
CodecTokens == {0, 513}
KeyLens == {0, 1, 65535, 65536}
ExtraLens == {0, 8, 255}
ValueLens == {0, 2}

Fill(n, seed) == [i \in 1..n |-> (seed + i) % 256]

\* what the reader holds after the packet: the start of the next one
Trailing == << MAGIC_REQUEST, 10 >>

PayloadOf(a) ==
    [ extra |-> Fill(a.extra_len, 1),
      key   |-> Fill(a.key_len, 101),
      value |-> Fill(a.value_len, 201) ]

PacketOf(a) ==
    LET New(pl) == RequestPacket_new(a.command, a.data_type, a.vbucket_id, a.opaque,
                                     a.cas, pl.extra, pl.key, pl.value)
    IN  New(PayloadOf(a))

NoHeader == RequestHeader_new("none", "none", 0, 0, 0, 0, 0, 0)
NoWrite == [extra |-> 0, key |-> 0, value |-> 0, total |-> 0]
NoRead == [tag |-> "none", header |-> NoHeader, extra |-> 0, key |-> 0, value |-> 0,
           consumed |-> 0]

\* what a state keeps of a read: the header and the length of each segment
ReadSummary(r, given) ==
    IF r.tag = "Ok"
    THEN [ tag |-> "Ok", header |-> r.packet.header, extra |-> Len(r.packet.extra),
           key |-> Len(r.packet.key), value |-> Len(r.packet.value),
           consumed |-> given - Len(r.rest) ]
    ELSE [NoRead EXCEPT !.tag = r.tag]

CodecPayloads ==
    [ command : CodecCommands, data_type : {"RawBytes"}, vbucket_id : CodecVbuckets,
      opaque : CodecOpaques, cas : CodecTokens, key_len : KeyLens,
      extra_len : ExtraLens, value_len : ValueLens ]


\* a payload in hand, nothing built from it yet
InitCodec ==
    /\ NoTraffic
    /\ last \in { [ layer |-> "codec", op |-> "payload", kind |-> "codec", conn |-> "s1",
                    args |-> a, header |-> NoHeader, wrote |-> NoWrite,
                    read |-> NoRead ] : a \in CodecPayloads }

CodecVars == <<svrs, store, casid, stream, closed, reqs, tok, failed, nops>>

\* RequestHeader::from_payload applied to the payload
Codec_from_payload ==
    /\ last.op = "payload"
    /\ LET Built(a, pl) == from_payload(a.command, a.data_type, a.vbucket_id, a.opaque,
                                        a.cas, pl.key, pl.extra, pl.value)
       IN  last' = [last EXCEPT !.op = "from_payload",
                                !.header = Built(last.args, PayloadOf(last.args))]
    /\ UNCHANGED CodecVars

\* RequestPacketRef::new over the header and the payload, then write_to: the
\* state keeps how many bytes of each segment went out
Codec_write_to ==
    /\ last.op = "from_payload"
    /\ LET Wrote(p, bytes) ==
               [ extra |-> Len(p.extra), key |-> Len(p.key), value |-> Len(p.value),
                 total |-> Len(bytes) ]
           Write(p) == Wrote(p, RequestPacket_write_to(p))
           Ref(pl) == RequestPacketRef(last.header, pl.extra, pl.key, pl.value)
       IN  last' = [last EXCEPT !.op = "write_to",
                                !.wrote = Write(Ref(PayloadOf(last.args)))]
    /\ UNCHANGED CodecVars

\* RequestPacket::read_from over what write_to produced and what follows it
Codec_read_from ==
    /\ last.op = "write_to"
    /\ LET From(bytes) == ReadSummary(RequestPacket_read_from(bytes), Len(bytes))
       IN  last' = [last EXCEPT !.op = "read_from",
                                !.read = From(RequestPacket_write_to(PacketOf(last.args))
                                              \o Trailing)]
    /\ UNCHANGED CodecVars

NextCodec ==
    \/ Codec_from_payload
    \/ Codec_write_to
    \/ Codec_read_from

SpecCodec == InitCodec /\ [][NextCodec]_vars

-----------------------------------------------------------------------------
(* Decoding a header from bytes that no encoder of this crate need have     *)
(* written: a behaviour starts from 24 bytes, or fewer, and reads them as   *)
(* a request header or as a response header.                                *)

HeaderMagics == {MAGIC_REQUEST, MAGIC_RESPONSE, 0}
HeaderOpcodes == {0, 10, 31, 72, 255}
HeaderDataTypes == {0, 1}
\* bytes 6 and 7: the vbucket id of a request, the status of a response
HeaderFields == {0, 1, 10, 33, 134, 135, 256}
HeaderGiven == {0, 1, 7, 23, 24}

HeaderInputs ==
    [ magic : HeaderMagics, opcode : HeaderOpcodes, data_type : HeaderDataTypes,
      field : HeaderFields, given : HeaderGiven ]

\* the bytes the reader holds: key length 1, no extras, body length 1, opaque 7,
\* CAS 9, cut after the first given bytes
HeaderBytesOf(a) ==
    SubSeq(<< a.magic, a.opcode >> \o U16BE(1) \o << 0, a.data_type >> \o U16BE(a.field)
               \o U32BE(1) \o U32BE(7) \o U64BE(9),
           1, a.given)

InitDecode ==
    /\ NoTraffic
    /\ last \in { [ layer |-> "codec", op |-> "header", kind |-> "decode", conn |-> "s1",
                    args |-> a, read |-> CodecErr("none", 0) ] : a \in HeaderInputs }

Decode_RequestHeader ==
    /\ last.op = "header"
    /\ last' = [last EXCEPT !.op = "RequestHeader::read_from",
                            !.read = RequestHeader_read_from(HeaderBytesOf(last.args))]
    /\ UNCHANGED CodecVars

Decode_ResponseHeader ==
    /\ last.op = "header"
    /\ last' = [last EXCEPT !.op = "ResponseHeader::read_from",
                            !.read = ResponseHeader_read_from(HeaderBytesOf(last.args))]
    /\ UNCHANGED CodecVars

NextDecode ==
    \/ Decode_RequestHeader
    \/ Decode_ResponseHeader

SpecDecode == InitDecode /\ [][NextDecode]_vars

-----------------------------------------------------------------------------
(* Reading a whole packet whose header no encoder of this crate need have   *)
(* written: the three lengths of the header are drawn freely, and so is the *)
(* number of body bytes the reader holds.                                   *)

\* ResponsePacket::read_from: the response header, then as the request's: a
\* buffer of body_len bytes split at extra_len and at key_len.  split_to panics
\* where the buffer is shorter than the split point; read_exact fails where the
\* reader runs out
ResponsePacket_read_from(b) ==
    LET Segments(h, body) ==
            IF h.extra_len > h.body_len \/ h.key_len > h.body_len - h.extra_len
            THEN [tag |-> "panic", error |-> "split_to out of bounds", rest |-> body]
            ELSE IF Len(body) < h.body_len
            THEN [tag |-> "Err", error |-> "UnexpectedEof", rest |-> <<>>]
            ELSE [ tag    |-> "Ok",
                   packet |-> [ header |-> h,
                                extra  |-> SubSeq(body, 1, h.extra_len),
                                key    |-> SubSeq(body, h.extra_len + 1,
                                                  h.extra_len + h.key_len),
                                value  |-> SubSeq(body, h.extra_len + h.key_len + 1,
                                                  h.body_len) ],
                   rest   |-> SubSeq(body, h.body_len + 1, Len(body)) ]
        AfterHeader(hd) ==
            IF hd.tag # "Ok" THEN [tag |-> hd.tag, error |-> hd.error, rest |-> <<>>]
            ELSE Segments(hd.header, SubSeq(b, 25, Len(b)))
    IN  AfterHeader(ResponseHeader_read_from(b))

PacketExtraLens == {0, 4}
PacketKeyLens == {0, 1, 3}
PacketBodyLens == {0, 1, 4, 5, 8}
PacketGiven == {0, 3, 8}
PacketMagics == {MAGIC_REQUEST, MAGIC_RESPONSE}

PacketInputs ==
    [ magic : PacketMagics, extra_len : PacketExtraLens, key_len : PacketKeyLens,
      body_len : PacketBodyLens, given : PacketGiven ]

\* the bytes the reader holds: a header of a Get, raw bytes, status or vbucket
\* id 0, opaque 7, CAS 9, with the drawn lengths, and the given body bytes
PacketBytesOf(a) ==
    << a.magic, Command_to_u8("Get") >> \o U16BE(a.key_len)
        \o << a.extra_len, DataType_to_u8("RawBytes") >> \o U16BE(0)
        \o U32BE(a.body_len) \o U32BE(7) \o U64BE(9) \o Fill(a.given, 1)

InitPacket ==
    /\ NoTraffic
    /\ last \in { [ layer |-> "codec", op |-> "packet", kind |-> "packet", conn |-> "s1",
                    args |-> a, read |-> NoRead ] : a \in PacketInputs }

Packet_RequestPacket ==
    /\ last.op = "packet"
    /\ LET From(bytes) == ReadSummary(RequestPacket_read_from(bytes), Len(bytes))
       IN  last' = [last EXCEPT !.op = "RequestPacket::read_from",
                                !.read = From(PacketBytesOf(last.args))]
    /\ UNCHANGED CodecVars

Packet_ResponsePacket ==
    /\ last.op = "packet"
    /\ LET From(bytes) == ReadSummary(ResponsePacket_read_from(bytes), Len(bytes))
       IN  last' = [last EXCEPT !.op = "ResponsePacket::read_from",
                                !.read = From(PacketBytesOf(last.args))]
    /\ UNCHANGED CodecVars

NextPacket ==
    \/ Packet_RequestPacket
    \/ Packet_ResponsePacket

SpecPacket == InitPacket /\ [][NextPacket]_vars

-----------------------------------------------------------------------------
(* The codes of commands and statuses: a behaviour starts from a number or  *)
(* from a variant and converts it one way, then back.                       *)

U8Codes == 0..255
U16Codes == 0..65535

\* an input is a number to decode or a variant to encode
CodeInputs ==
    { [type |-> "Command", numeric |-> TRUE, code |-> c, variant |-> "None"] :
          c \in U8Codes }
        \cup { [type |-> "Command", numeric |-> FALSE, code |-> 0, variant |-> v] :
                   v \in DOMAIN Command }
        \cup { [type |-> "Status", numeric |-> TRUE, code |-> c, variant |-> "None"] :
                   c \in U16Codes }
        \cup { [type |-> "Status", numeric |-> FALSE, code |-> 0, variant |-> v] :
                   v \in DOMAIN Status }

InitCodes ==
    /\ NoTraffic
    /\ last \in { [ layer |-> "codec", op |-> "input", kind |-> "code", conn |-> "s1",
                    type |-> i.type, numeric |-> i.numeric, given |-> i,
                    code |-> i.code, variant |-> i.variant, steps |-> 0 ] :
                  i \in CodeInputs }

\* a number is in hand: the input, or what to_u8 / to_u16 gave
HoldsCode == (last.op = "input" /\ last.numeric) \/ last.op = "to"

\* a variant is in hand: the input, or what from_u8 / from_u16 found
HoldsVariant ==
    \/ last.op = "input" /\ ~last.numeric
    \/ last.op = "from" /\ last.variant # "None"

Code_Command_from_u8 ==
    /\ last.type = "Command" /\ HoldsCode /\ last.steps < 2
    /\ last' = [last EXCEPT !.op = "from", !.variant = Command_from_u8(last.code),
                            !.steps = @ + 1]
    /\ UNCHANGED CodecVars

Code_Command_to_u8 ==
    /\ last.type = "Command" /\ HoldsVariant /\ last.steps < 2
    /\ last' = [last EXCEPT !.op = "to", !.code = Command_to_u8(last.variant),
                            !.steps = @ + 1]
    /\ UNCHANGED CodecVars

Code_Status_from_u16 ==
    /\ last.type = "Status" /\ HoldsCode /\ last.steps < 2
    /\ last' = [last EXCEPT !.op = "from", !.variant = Status_from_u16(last.code),
                            !.steps = @ + 1]
    /\ UNCHANGED CodecVars

Code_Status_to_u16 ==
    /\ last.type = "Status" /\ HoldsVariant /\ last.steps < 2
    /\ last' = [last EXCEPT !.op = "to", !.code = Status_to_u16(last.variant),
                            !.steps = @ + 1]
    /\ UNCHANGED CodecVars

NextCodes ==
    \/ Code_Command_from_u8
    \/ Code_Command_to_u8
    \/ Code_Status_from_u16
    \/ Code_Status_to_u16

SpecCodes == InitCodes /\ [][NextCodes]_vars

-----------------------------------------------------------------------------
(* Properties.  Each is stated over last, the record of the latest call.   *)

\* the responses the latest call read, and the one it read last
Got == last.st.got
Decisive == Got[Len(Got)]

\* the stream the call read from: the responses unread before it, then the
\* server's answers to the requests the call flushed
Avail == last.st.avail

IsPrefix(a, b) == Len(a) <= Len(b) /\ a = SubSeq(b, 1, Len(a))

\* C1: a simple or CAS operation that wrote its request with opaque B reads
\* the stream in order up to the first response whose opaque is B, passes
\* over every earlier response whatever its status, and returns what that
\* response says: Ok exactly when its status is NoError, else its status.
C1_OpaqueCorrelation ==
    last.kind \in {"simple", "cas"} =>
        /\ Len(last.st.written) = 1
        /\ last.st.written[1].header.opaque = last.opaque
        /\ Got # <<>>
        /\ IsPrefix(Got, Avail)
        /\ \A i \in 1..(Len(Got) - 1) : Got[i].opaque # last.opaque
        /\ Decisive.opaque = last.opaque
        /\ last.result.tag \in {"Ok", "Err"}
        /\ last.result.tag = "Ok" <=> Decisive.status = "NoError"
        /\ last.result.tag = "Err" => last.result.status = Decisive.status
        /\ (last.op \in {"get", "get_cas"} /\ last.result.tag = "Ok") =>
               /\ last.result.val.value = Decisive.value
               /\ last.result.val.flags = ReadU32BE(Decisive.extra)

\* a CAS operation passed over an unread error response and returned Ok
C1_Witness ==
    /\ last.kind = "cas"
    /\ Len(Got) >= 2
    /\ Got[1].status # "NoError"
    /\ Got[1].opaque # last.opaque
    /\ last.result.tag = "Ok"

\* C2: a multi-key operation over N keys writes N per-key requests, one per
\* key, then a Noop, and every write precedes every read.
C2_WritesBeforeReads ==
    last.kind = "multi" =>
        LET N  == Len(last.args.keys)
            w  == last.st.written
            ev == last.st.ev
        IN  /\ Len(w) = N + 1
            /\ \A i \in 1..N : w[i].header.command # "Noop" /\ w[i].key = last.args.keys[i]
            /\ w[N + 1].header.command = "Noop"
            /\ \A i \in 1..(N + 1) : ev[i] = "write"
            /\ \A i, j \in 1..Len(ev) : (ev[i] = "read" /\ ev[j] = "write") => j < i

\* a batch over two keys that the server answered
C2_Witness ==
    /\ last.kind = "multi"
    /\ Len(last.args.keys) = 2
    /\ Len(Got) >= 2
    /\ Got[1].rid > last.st0.reqs

\* the statuses a multi-key operation passes over
Acceptable(op) ==
    IF op = "delete_multi" THEN {"NoError", "KeyNotFound"} ELSE {"NoError"}

\* C3: a multi-key operation returns Ok only after reading a Noop response,
\* every response read up to it being acceptable; a response with another
\* status is the last one read, and the call returns that status and no
\* entries.
C3_AllOrNothing ==
    last.kind = "multi" =>
        /\ last.result.tag = "Ok" =>
               /\ Got # <<>>
               /\ Decisive.command = "Noop"
               /\ \A i \in 1..Len(Got) : Got[i].status \in Acceptable(last.op)
        /\ \A i \in 1..Len(Got) :
               Got[i].status \notin Acceptable(last.op) =>
                   /\ i = Len(Got)
                   /\ last.result.tag = "Err"
                   /\ last.result.status = Got[i].status
                   /\ last.result.val = <<>>

\* increment_multi failed after it had accumulated an entry
C3_Witness ==
    /\ last.op = "increment_multi"
    /\ last.result.tag = "Err"
    /\ Len(Got) >= 2
    /\ Got[1].status = "NoError"
    /\ Got[1].opaque = last.opaque

\* C4 as stated: a successful multi-key operation over N keys has read
\* exactly N+1 responses, the last being the Noop response.
C4_ExactlyNPlusOne ==
    (last.kind = "multi" /\ last.result.tag = "Ok") =>
        /\ Len(Got) = Len(last.args.keys) + 1
        /\ Decisive.command = "Noop"

\* C4, amended: a successful multi-key operation over N keys has read the
\* stream up to and including the first Noop response: at least one
\* response, and at most N+1 beyond those unread before the call (a quiet
\* request the server does not answer adds none).
C4_UpToFirstNoop ==
    (last.kind = "multi" /\ last.result.tag = "Ok") =>
        /\ Len(Got) >= 1
        /\ Len(Got) <= Len(last.st0.stream) + Len(last.args.keys) + 1
        /\ IsPrefix(Got, Avail)
        /\ Decisive.command = "Noop"
        /\ \A i \in 1..(Len(Got) - 1) : Got[i].command # "Noop"

\* set_multi over two keys succeeded having read the Noop response alone
C4_Witness ==
    /\ last.op = "set_multi"
    /\ Len(last.args.keys) = 2
    /\ last.result.tag = "Ok"
    /\ Len(Got) = 1

Before == last.st0.store[last.args.key]
After == last.st.store[last.args.key]

QuietOf(op) ==
    CASE op = "set_noreply" -> "SetQuietly"
      [] op = "add_noreply" -> "AddQuietly"
      [] op = "delete_noreply" -> "DeleteQuietly"
      [] op = "replace_noreply" -> "ReplaceQuietly"
      [] op = "increment_noreply" -> "IncrementQuietly"
      [] op = "decrement_noreply" -> "DecrementQuietly"
      [] op = "append_noreply" -> "AppendQuietly"
      [] op = "prepend_noreply" -> "PrependQuietly"

\* C7: a no-reply operation writes one request, with the quiet opcode of the
\* operation, flushes, reads nothing and returns Ok; the responses unread
\* before the call are still unread, in order, and the only response that
\* can follow them is the server's rejection of this request.
C7_NoReplyWritesOnce ==
    last.kind = "noreply" =>
        /\ Len(last.st.written) = 1
        /\ last.st.written[1].header.command = QuietOf(last.op)
        /\ last.st.written[1].header.command \in QuietCommands
        /\ last.st.ev = <<"write", "flush">>
        /\ Got = <<>>
        /\ last.result = Ok(<<>>)
        /\ IsPrefix(last.st0.stream, last.st.stream)
        /\ Len(last.st.stream) <= Len(last.st0.stream) + 1
        /\ \A i \in (Len(last.st0.stream) + 1)..Len(last.st.stream) :
               /\ last.st.stream[i].rid = last.st0.reqs + 1
               /\ last.st.stream[i].status # "NoError"

\* a no-reply call the server rejected, made with a response already unread
C7_Witness ==
    /\ last.kind = "noreply"
    /\ Len(last.st0.stream) >= 1
    /\ Len(last.st.stream) = Len(last.st0.stream) + 1
    /\ last.result.tag = "Ok"

\* the writes C8 names
TokenWrites == CasWrites \ {"add_cas"}

\* C8 as stated: a write carrying a token succeeds only when the token
\* equals the key's current version; otherwise it returns KeyExists and the
\* item is not overwritten; on success it returns the item's new version.
C8_OnlyCurrentToken ==
    last.op \in TokenWrites =>
        /\ last.result.tag = "Ok" => (Before # NoItem /\ last.args.cas = Before[1].cas)
        /\ (Before # NoItem /\ last.args.cas # Before[1].cas) =>
               /\ last.result = from_status("KeyExists", <<>>)
               /\ After = Before
        /\ last.result.tag = "Ok" =>
               (After # NoItem /\ ReturnedToken(last.op, last.result) = After[1].cas)

\* C8, amended: a write carrying a nonzero token for a key that exists
\* succeeds only when the token equals the key's current version; with
\* another nonzero token it returns KeyExists and the item is unchanged.  A
\* successful write returns the version in the response header, which is
\* the item's version from then on, until the item is written again.
C8_CurrentNonzeroToken ==
    /\ (last.op \in TokenWrites /\ Before # NoItem /\ last.args.cas # 0) =>
           /\ last.result.tag = "Ok" => last.args.cas = Before[1].cas
           /\ last.args.cas # Before[1].cas =>
                  /\ last.result = from_status("KeyExists", <<>>)
                  /\ After = Before
    /\ (last.op \in TokenWrites /\ last.result.tag = "Ok") =>
           /\ After # NoItem
           /\ ReturnedToken(last.op, last.result) = Decisive.cas
           /\ ReturnedToken(last.op, last.result) = After[1].cas
    /\ \A k \in Keys :
           tok[k] # 0 => (store["s1"][k] # NoItem /\ store["s1"][k][1].cas = tok[k])

\* a write with a token that is not current failed, after a write that had
\* returned the current one
C8_Witness ==
    /\ last.op \in TokenWrites
    /\ last.args.cas # 0
    /\ last.result = from_status("KeyExists", <<>>)
    /\ tok[last.args.key] # 0
    /\ tok[last.args.key] # last.args.cas

\* C9: get_cas returns the token the latest successful write to the key
\* returned, with the stored value; a CAS write that failed leaves the item,
\* and so that token and value, unchanged.
C9_GetCasReportsLatestToken ==
    /\ (last.op = "get_cas" /\ last.result.tag = "Ok") =>
           /\ tok[last.args.key] # 0 => last.result.val.cas = tok[last.args.key]
           /\ After # NoItem
           /\ last.result.val.cas = After[1].cas
           /\ last.result.val.value = After[1].value
    /\ (last.op \in CasWrites /\ last.result.tag = "Err") => After = Before

\* get_cas after a successful write and then a failed CAS write
C9_Witness ==
    /\ last.op = "get_cas"
    /\ last.result.tag = "Ok"
    /\ failed[last.args.key]
    /\ tok[last.args.key] # 0
    /\ last.result.val.cas = tok[last.args.key]

\* C10 as stated: a single-key operation of the Client calls the driver
\* operation of the same name, once, with the same arguments, on the server
\* the ring gives for the key, and returns its result.
C10_ClientForwardsSameOperation ==
    last.layer = "client" =>
        LET r == proto_call(last.op, last.st0, last.args, last.opaque)
        IN  /\ last.conn = ring_get(conn(svrs), last.args.key)
            /\ Len(last.st.written) = 1
            /\ last.result = r.result
            /\ last.st = r.st

\* C11 as stated: Client::decrement makes the selected driver write a
\* Decrement request, and on a key holding the number v returns v - amount,
\* or 0 when amount > v.
C11_ClientDecrementDecrements ==
    (last.layer = "client" /\ last.op = "decrement") =>
        /\ Len(last.st.written) = 1
        /\ last.st.written[1].header.command = "Decrement"
        /\ (Before # NoItem /\ IsDec(Before[1].value)) =>
               LET v == ParseDec(Before[1].value)
               IN  last.result =
                       Ok(IF last.args.amount > v THEN 0 ELSE v - last.args.amount)

RoutingKey(call) == IF call.kind = "multi" THEN call.args.keys[1] ELSE call.args.key

\* C13: once a Client is constructed its server list never changes, and
\* every call that reaches a driver goes to the one server that the ring
\* built from that list gives for the call's key, a function of the key and
\* the list alone; the connections to the other servers are left untouched.
C13_RingFixedAfterConstruction ==
    [][svrs # <<>> =>
          /\ svrs' = svrs
          /\ (last'.layer = "client" /\ last'.result.tag # "panic") =>
                 /\ last'.conn = ring_get(conn(svrs), RoutingKey(last'))
                 /\ last'.conn \in {svrs[n].addr : n \in 1..Len(svrs)}
                 /\ \A s \in Addrs \ {last'.conn} :
                        /\ store'[s] = store[s]
                        /\ stream'[s] = stream[s]
                        /\ closed'[s] = closed[s]]_vars

\* on a Client of two servers, a second call for a key of the second server
\* found what the first had stored there
C13_Witness ==
    /\ Len(svrs) = 2
    /\ nops = 2
    /\ last.op = "get"
    /\ last.conn = "s2"
    /\ last.result.tag = "Ok"
    /\ last.result.val.value = <<53>>
    /\ store["s1"][last.args.key] = NoItem

\* C14: Client::connect with an empty list panics before any connection is
\* attempted; if a listed server refuses the connection or the credentials,
\* construction stops at the first such server and returns the error; in
\* both cases no Client is produced.  A Client that is produced holds every
\* listed server, so at least one.
C14_NoClientWithoutServers ==
    /\ last.op = "connect" =>
           /\ last.args.keys = <<>> =>
                  (last.result = Panic /\ last.dialled = <<>> /\ svrs = <<>>)
           /\ last.refused # {} =>
                  /\ last.result.tag = "io"
                  /\ svrs = <<>>
                  /\ last.dialled[Len(last.dialled)] \in last.refused
                  /\ \A i \in 1..(Len(last.dialled) - 1) : last.dialled[i] \notin last.refused
           /\ last.result.tag = "Ok" =>
                  /\ svrs = last.args.keys
                  /\ svrs # <<>>
                  /\ last.dialled = [n \in 1..Len(svrs) |-> svrs[n].addr]
           /\ IsPrefix(last.dialled, [n \in 1..Len(last.args.keys) |-> last.args.keys[n].addr])
    /\ svrs # <<>> => len(servers) >= 1

\* construction failed at the second of two servers, the first having been
\* connected
C14_Witness ==
    /\ last.op = "connect"
    /\ last.result.tag = "io"
    /\ last.dialled = <<"s1", "s2">>
    /\ last.refused = {"s2"}
    /\ svrs = <<>>

\* C15 as stated: once quit has been served the connection is terminal:
\* every later operation on it returns an error and none returns Ok.
C15_NothingSucceedsAfterQuit ==
    last.st0.closed => last.result.tag \in {"Err", "io", "Other"}

\* C15, amended: quit that returns Ok has read every response up to its own,
\* and the server has closed the connection.  Every later operation that
\* reads a response (simple, multi-key, noop, stat, quit) finds the stream
\* at its end and returns the I/O error, and no later operation changes
\* what the server stores.  A no-reply operation reads nothing and is not
\* covered: it can still return Ok.
C15_ReadersFailAfterQuit ==
    /\ (last.op = "quit" /\ last.result.tag = "Ok") =>
           /\ last.st.closed
           /\ last.st.stream = <<>>
           /\ Decisive.command = "Quit"
    /\ last.st0.closed =>
           /\ last.kind # "noreply" => (last.result = NoReturn("io") /\ Got = <<>>)
           /\ last.st.store = last.st0.store
           /\ last.st.stream = <<>>
           /\ last.st.closed

\* noop after quit failed, as in test_quit
C15_Witness ==
    /\ last.st0.closed
    /\ last.op = "noop"
    /\ last.result = NoReturn("io")
    /\ Len(last.st.written) = 1

\* C16: delete_multi passes over a KeyNotFound response as over a NoError
\* one and reads on, returning Ok at the Noop response; set_multi, get_multi
\* and increment_multi stop at a KeyNotFound response, as at any status
\* other than NoError, and return it as the error.
C16_DeleteMultiTolerates ==
    last.kind = "multi" =>
        \A i \in 1..Len(Got) :
            /\ (last.op = "delete_multi" /\ Got[i].status = "KeyNotFound") =>
                   /\ i < Len(Got)
                   /\ (\A j \in 1..Len(Got) : Got[j].status \in {"NoError", "KeyNotFound"}) =>
                          (last.result = Ok(<<>>) /\ Decisive.command = "Noop")
            /\ (last.op # "delete_multi" /\ Got[i].status # "NoError") =>
                   /\ i = Len(Got)
                   /\ last.result = from_status(Got[i].status, <<>>)
            /\ (last.op = "delete_multi" /\ Got[i].status \notin {"NoError", "KeyNotFound"}) =>
                   /\ i = Len(Got)
                   /\ last.result = from_status(Got[i].status, <<>>)

\* delete_multi of a stored and an absent key returned Ok, the server having
\* answered KeyNotFound for the absent one
C16_Witness ==
    /\ last.op = "delete_multi"
    /\ Len(last.args.keys) = 2
    /\ last.result = Ok(<<>>)
    /\ last.st0.store[last.args.keys[1]] # NoItem
    /\ last.st0.store[last.args.keys[2]] = NoItem
    /\ last.st.store[last.args.keys[1]] = NoItem
    /\ \E i \in 1..Len(Got) : /\ Got[i].status = "KeyNotFound"
                              /\ Got[i].command = "DeleteQuietly"
                              /\ Got[i].rid > last.st0.reqs

\* the map get_multi should return: the requested keys that are stored, each
\* with its stored value and flags
StoredEntries(st, keys) ==
    [k \in {keys[i] : i \in {j \in 1..Len(keys) : st.store[keys[j]] # NoItem}} |->
        [value |-> st.store[k][1].value, flags |-> st.store[k][1].flags]]

\* C17 as stated: get_multi that returns Ok returns, for each requested key
\* that is stored, the value and flags last set, and no entry for any other
\* key.
C17_GetMultiReturnsStored ==
    (last.op = "get_multi" /\ last.result.tag = "Ok") =>
        last.result.val = StoredEntries(last.st, last.args.keys)

\* the opcode the claim gives the per-key requests of a multi-key operation
QuietOfMulti(op) ==
    CASE op = "set_multi" -> "SetQuietly"
      [] op = "get_multi" -> "GetKeyQuietly"
      [] op = "delete_multi" -> "DeleteQuietly"
      [] op = "increment_multi" -> "IncrementQuietly"

\* C18 as stated: every per-key request of a multi-key operation carries the
\* quiet variant of its opcode, and the trailing Noop is the only request
\* of the batch that is not quiet.
C18_PerKeyRequestsQuiet ==
    last.kind = "multi" =>
        LET w == last.st.written
        IN  /\ \A i \in 1..(Len(w) - 1) :
                   /\ w[i].header.command = QuietOfMulti(last.op)
                   /\ w[i].header.command \in QuietCommands
            /\ w[Len(w)].header.command = "Noop"

\* C18, amended: the per-key requests of set_multi, get_multi and
\* delete_multi carry SetQuietly, GetKeyQuietly and DeleteQuietly, with
\* opaque 0; those of increment_multi carry Increment, which is not quiet,
\* each with an opaque of its own, so that the server answers every one of
\* them.  The last request of every batch is a Noop.
C18_QuietExceptIncrement ==
    last.kind = "multi" =>
        LET w == last.st.written
        IN  /\ \A i \in 1..(Len(w) - 1) :
                   IF last.op = "increment_multi"
                   THEN /\ w[i].header.command = "Increment"
                        /\ w[i].header.command \notin QuietCommands
                        /\ w[i].header.opaque = last.st0.reqs + i
                        /\ \E j \in 1..Len(Avail) : Avail[j].rid = last.st0.reqs + i
                   ELSE /\ w[i].header.command = QuietOfMulti(last.op)
                        /\ w[i].header.command \in QuietCommands
                        /\ w[i].header.opaque = 0
            /\ w[Len(w)].header.command = "Noop"

\* increment_multi over two keys returned both values, read from the answers
\* to its two Increment requests
C18_Witness ==
    /\ last.op = "increment_multi"
    /\ Len(last.args.keys) = 2
    /\ last.result.tag = "Ok"
    /\ DOMAIN last.result.val = {K1, K2}
    /\ Len(Got) = 3
    /\ Got[1].command = "Increment"
    /\ Got[2].command = "Increment"

-----------------------------------------------------------------------------
(* C19, C20: the header built from a payload and the packet on the wire *)

\* C19 (as stated): in every header built from a payload, body_len is the sum
\* of the header's extra_len and key_len and of the length of the value, and
\* key_len and extra_len are the numbers of key and extras bytes written after
\* the header, whatever the length of the key
C19_BodyLenIsSumOfSegments ==
    (last.layer = "codec" /\ last.op \in {"write_to", "read_from"})
        => /\ last.header.body_len
                = last.header.extra_len + last.header.key_len + last.wrote.value
           /\ last.header.key_len = last.wrote.key
           /\ last.header.extra_len = last.wrote.extra
           /\ last.wrote.total = 24 + last.header.body_len

\* the lengths of the payload fit the header's u16 and u8 fields
FitsHeader(a) == a.key_len <= 65535 /\ a.extra_len <= 255

\* a read gave back the packet p that was written: every header field, the
\* three segments byte for byte, and rest is what followed the packet
ReadBack(r, p, a, after) ==
    /\ r.tag = "Ok"
    /\ r.packet.header.command = a.command
    /\ r.packet.header.data_type = a.data_type
    /\ r.packet.header.vbucket_id = a.vbucket_id
    /\ r.packet.header.opaque = a.opaque
    /\ r.packet.header.cas = a.cas
    /\ r.packet.extra = p.extra
    /\ r.packet.key = p.key
    /\ r.packet.value = p.value
    /\ r.rest = after

\* C20: for a packet built from segments whose lengths fit the header fields,
\* zero lengths included, reading back what write_to produced gives the same
\* opcode, data type, vbucket id, opaque and CAS and the same three segments
\* byte for byte, and takes exactly 24 + body_len bytes from the reader
C20_ReadFromInvertsWriteTo ==
    (last.layer = "codec" /\ last.op = "read_from" /\ FitsHeader(last.args))
        => LET Same(p, bytes) ==
                   /\ ReadBack(RequestPacket_read_from(bytes \o Trailing), p,
                               last.args, Trailing)
                   /\ last.read.tag = "Ok"
                   /\ last.read.header = p.header
                   /\ last.read.extra = last.args.extra_len
                   /\ last.read.key = last.args.key_len
                   /\ last.read.value = last.args.value_len
                   /\ last.read.consumed = 24 + p.header.body_len
                   /\ last.read.consumed = Len(bytes)
               Written(p) == Same(p, RequestPacket_write_to(p))
           IN  Written(PacketOf(last.args))

\* a packet with the longest extras and the longest key that fit, and no
\* value at all, was written and read back
C20_Witness ==
    /\ last.layer = "codec"
    /\ last.op = "read_from"
    /\ last.args.extra_len = 255
    /\ last.args.key_len = 65535
    /\ last.args.value_len = 0
    /\ last.read.tag = "Ok"
    /\ last.read.consumed = 24 + 65790

-----------------------------------------------------------------------------
(* C21, C22: what a header decoder refuses, and the tables of codes *)

\* the opcodes and the status codes the protocol defines, as numbers
DefinedOpcodes == (0..30) \cup (32..34) \cup (48..71)
DefinedStatusCodes == (0..9) \cup {32, 33} \cup (129..134)

\* the magic byte of the direction a decoder reads
ExpectedMagic(op) == IF op = "RequestHeader::read_from" THEN 128 ELSE 129

\* C21: decoding a header gives an error, and no header, when the magic byte is
\* not the one of the direction read, when the opcode is not a defined command
\* code, when the data type is not 0, or (responses) when the status is not a
\* defined status code; a wrong magic byte is refused after that one byte has
\* been read; a header that is returned holds the fields the bytes hold
C21_DecoderRefusesUnknownCodes ==
    (last.kind = "decode" /\ last.op # "header")
        => LET a == last.args
               r == last.read
           IN  /\ (a.given >= 1 /\ a.magic # ExpectedMagic(last.op))
                      => (r.tag = "Err" /\ r.error = "Invalid magic" /\ r.consumed = 1)
               /\ (a.given >= 2 /\ a.opcode \notin DefinedOpcodes) => r.tag = "Err"
               /\ (a.given >= 6 /\ a.data_type # 0) => r.tag = "Err"
               /\ (last.op = "ResponseHeader::read_from" /\ a.given >= 8
                       /\ a.field \notin DefinedStatusCodes) => r.tag = "Err"
               /\ r.tag \in {"Ok", "Err"}
               /\ r.tag = "Ok"
                      => /\ a.given = 24
                         /\ a.magic = ExpectedMagic(last.op)
                         /\ a.opcode \in DefinedOpcodes
                         /\ Command_to_u8(r.header.command) = a.opcode
                         /\ a.data_type = 0
                         /\ r.header.data_type = "RawBytes"
                         /\ r.header.key_len = 1
                         /\ r.header.extra_len = 0
                         /\ r.header.body_len = 1
                         /\ r.header.opaque = 7
                         /\ r.header.cas = 9
                         /\ last.op = "RequestHeader::read_from"
                                => r.header.vbucket_id = a.field
                         /\ last.op = "ResponseHeader::read_from"
                                => /\ a.field \in DefinedStatusCodes
                                   /\ Status_to_u16(r.header.status) = a.field

\* a response header that is sound but for a status code no status has was
\* read, and refused for its status
C21_Witness ==
    /\ last.kind = "decode"
    /\ last.op = "ResponseHeader::read_from"
    /\ last.args.given = 24
    /\ last.args.magic = 129
    /\ last.args.opcode = 10
    /\ last.args.data_type = 0
    /\ last.args.field = 135
    /\ last.read.tag = "Err"
    /\ last.read.error = "Invalid status"

\* the wire values the protocol fixes for some commands and statuses
FixedCode(type, variant) ==
    IF type = "Status"
    THEN CASE variant = "NoError" -> 0
           [] variant = "KeyNotFound" -> 1
           [] OTHER -> -1
    ELSE CASE variant = "Get" -> 0
           [] variant = "Set" -> 1
           [] variant = "Quit" -> 7
           [] variant = "Noop" -> 10
           [] variant = "GetKey" -> 12
           [] variant = "SetQuietly" -> 17
           [] variant = "SaslListMechanisms" -> 32
           [] variant = "SaslAuthenticate" -> 33
           [] OTHER -> -1

\* C22: for commands and for statuses, decoding the code of a variant gives
\* the variant back; decoding a number gives a variant exactly when the number
\* is a defined code, and that variant's code is the number; and the variants
\* the protocol fixes a wire value for have that value
C22_CodesAreBijections ==
    last.kind = "code"
        => /\ (last.op = "from" /\ ~last.numeric) => last.variant = last.given.variant
           /\ (last.op = "from" /\ last.numeric)
                  => (last.variant # "None"
                          <=> last.code \in (IF last.type = "Command"
                                             THEN DefinedOpcodes
                                             ELSE DefinedStatusCodes))
           /\ (last.op = "to" /\ last.numeric) => last.code = last.given.code
           /\ (last.op = "to" /\ FixedCode(last.type, last.variant) # -1)
                  => last.code = FixedCode(last.type, last.variant)

\* SaslAuthenticate, the variant after the gap in the opcodes, was encoded as
\* 0x21 and decoded back
C22_Witness ==
    /\ last.kind = "code"
    /\ last.type = "Command"
    /\ ~last.numeric
    /\ last.given.variant = "SaslAuthenticate"
    /\ last.op = "from"
    /\ last.steps = 2
    /\ last.code = 33
    /\ last.variant = "SaslAuthenticate"

-----------------------------------------------------------------------------
(* C23: the bytes of a request *)

\* the opcode byte of the commands a codec behaviour writes
WireOpcode(cmd) ==
    CASE cmd = "Get" -> 0
      [] cmd = "SetQuietly" -> 17
      [] cmd = "Touch" -> 28

\* the number that the bytes of b from position i to position j spell, most
\* significant byte first
RECURSIVE BigEndianAt(_, _, _)
BigEndianAt(b, i, j) ==
    IF j < i THEN 0 ELSE BigEndianAt(b, i, j - 1) * 256 + b[j]

\* bytes is a request on the wire: 24 header bytes, field after field, then
\* the extras, the key and the value with nothing in between
LaidOut(bytes, h, a, pl) ==
    /\ Len(bytes) = 24 + Len(pl.extra) + Len(pl.key) + Len(pl.value)
    /\ bytes[1] = 128
    /\ bytes[2] = WireOpcode(a.command)
    /\ BigEndianAt(bytes, 3, 4) = h.key_len
    /\ bytes[5] = h.extra_len
    /\ bytes[6] = 0
    /\ BigEndianAt(bytes, 7, 8) = a.vbucket_id
    /\ BigEndianAt(bytes, 9, 12) = h.body_len
    /\ BigEndianAt(bytes, 13, 16) = a.opaque
    /\ BigEndianAt(bytes, 17, 24) = a.cas
    /\ SubSeq(bytes, 25, 24 + Len(pl.extra)) = pl.extra
    /\ SubSeq(bytes, 25 + Len(pl.extra), 24 + Len(pl.extra) + Len(pl.key)) = pl.key
    /\ SubSeq(bytes, 25 + Len(pl.extra) + Len(pl.key), Len(bytes)) = pl.value

\* C23: a request is written as exactly 24 header bytes in the order magic
\* 0x80, opcode, key length (2), extras length, data type, vbucket id (2), body
\* length (4), opaque (4), CAS (8), every field of several bytes big-endian,
\* followed by the extras, then the key, then the value, nothing in between
C23_RequestLayout ==
    (last.kind = "codec" /\ last.op \in {"write_to", "read_from"})
        => LET Check(pl) ==
                   /\ LaidOut(RequestPacket_write_to(
                                  RequestPacketRef(last.header, pl.extra, pl.key, pl.value)),
                              last.header, last.args, pl)
                   /\ last.wrote.total = 24 + Len(pl.extra) + Len(pl.key) + Len(pl.value)
                   /\ last.wrote.extra = Len(pl.extra)
                   /\ last.wrote.key = Len(pl.key)
                   /\ last.wrote.value = Len(pl.value)
           IN  Check(PayloadOf(last.args))

\* a request whose every segment holds bytes, and whose vbucket id, opaque and
\* CAS take more than one byte, was written: 35 bytes
C23_Witness ==
    /\ last.kind = "codec"
    /\ last.op = "write_to"
    /\ last.args.extra_len = 8
    /\ last.args.key_len = 1
    /\ last.args.value_len = 2
    /\ last.args.vbucket_id = 258
    /\ last.args.opaque = 16909060
    /\ last.args.cas = 513
    /\ last.wrote.total = 35

-----------------------------------------------------------------------------
(* C24: the error a call returns for a status that is not NoError *)

\* C24 (as stated): a simple or CAS operation returns Ok only if the response
\* it matched has status NoError; for any other status it returns a protocol
\* error that carries that status and, when the value of the response is not
\* empty, the text decoded from that value as its detail
C24_ErrorCarriesStatusAndDetail ==
    (last.kind \in {"simple", "cas"} /\ last.result.tag \in {"Ok", "Err"} /\ Got # <<>>)
        => /\ last.result.tag = "Ok" => Decisive.status = "NoError"
           /\ Decisive.status # "NoError"
                  => /\ last.result.tag = "Err"
                     /\ last.result.status = Decisive.status
                     /\ (Decisive.value # <<>> /\ IsUtf8(Decisive.value))
                            => last.result.detail = << Decisive.value >>

-----------------------------------------------------------------------------
(* C25: the outcome of an authentication step *)

\* C25: auth_start and auth_continue return what the status of the response
\* with their opaque says: AuthenticationFurtherStepRequired gives Continue
\* with the value of the response, NoError gives Succeeded,
\* AuthenticationRequired gives Failed, and every other status gives a
\* protocol error carrying that status; there is no other outcome
C25_AuthOutcomeFollowsStatus ==
    (last.kind = "auth" /\ last.result.tag \in {"Ok", "Err"})
        => /\ Got # <<>>
           /\ Decisive.opaque = last.opaque
           /\ \A i \in 1..(Len(Got) - 1) : Got[i].opaque # last.opaque
           /\ last.st.written[1].header.command
                  = (IF last.op = "auth_start" THEN "SaslAuthenticate" ELSE "SaslStep")
           /\ CASE Decisive.status = "AuthenticationFurtherStepRequired"
                     -> /\ last.result.tag = "Ok"
                        /\ last.result.val.auth = "Continue"
                        /\ last.result.val.data = Decisive.value
                [] Decisive.status = "NoError"
                     -> last.result.tag = "Ok" /\ last.result.val.auth = "Succeeded"
                [] Decisive.status = "AuthenticationRequired"
                     -> last.result.tag = "Ok" /\ last.result.val.auth = "Failed"
                [] OTHER
                     -> /\ last.result.tag = "Err"
                        /\ last.result.status = Decisive.status
           /\ last.result.tag = "Ok"
                  => last.result.val.auth \in {"Continue", "Succeeded", "Failed"}

\* an authentication step passed over the unread rejection of a no-reply call
\* and returned Failed for the server's AuthenticationRequired
C25_Witness ==
    /\ last.kind = "auth"
    /\ Len(Got) = 2
    /\ Got[1].status = "KeyExists"
    /\ Decisive.status = "AuthenticationRequired"
    /\ last.result.tag = "Ok"
    /\ last.result.val.auth = "Failed"

-----------------------------------------------------------------------------
(* C26: stat *)

\* the responses the call read that carry its opaque
Mine == SelectSeq(Got, LAMBDA r : r.opaque = last.opaque)

IsTerminator(r) == r.key = <<>> /\ r.value = <<>>

\* C26: stat writes one request and reads the stream in order until a
\* response with its opaque has neither key nor value; it returns the mapping
\* made of the key/value pairs of the responses with its opaque read before
\* that one, which is not an entry, passes over responses with another
\* opaque, and returns an error at the first response with its opaque whose
\* status is not NoError
C26_StatReadsToTerminator ==
    (last.op = "stat" /\ last.result.tag \in {"Ok", "Err"})
        => /\ Len(last.st.written) = 1
           /\ last.st.written[1].header.command = "Stat"
           /\ last.st.written[1].header.opaque = last.opaque
           /\ IsPrefix(Got, Avail)
           /\ Mine # <<>>
           /\ Decisive = Mine[Len(Mine)]
           /\ \A i \in 1..(Len(Mine) - 1) :
                  Mine[i].status = "NoError" /\ ~IsTerminator(Mine[i])
           /\ last.result.tag = "Ok"
                  => /\ Decisive.status = "NoError"
                     /\ IsTerminator(Decisive)
                     /\ \A e \in last.result.val :
                            \E i \in 1..(Len(Mine) - 1) :
                                /\ Mine[i].key = e.key
                                /\ Mine[i].value = e.value
                                /\ \A j \in (i + 1)..(Len(Mine) - 1) : Mine[j].key # e.key
                     /\ \A i \in 1..(Len(Mine) - 1) :
                            \E e \in last.result.val : e.key = Mine[i].key
                     /\ \A e, f \in last.result.val : e.key = f.key => e = f
           /\ last.result.tag = "Err"
                  => /\ Decisive.status # "NoError"
                     /\ last.result.status = Decisive.status

\* stat passed over the unread rejection of a no-reply call, read two
\* statistics and the terminator, and returned the two
C26_Witness ==
    /\ last.op = "stat"
    /\ Len(Got) = 4
    /\ Got[1].opaque # last.opaque
    /\ Got[1].status = "KeyExists"
    /\ Len(Mine) = 3
    /\ last.result.tag = "Ok"
    /\ Cardinality(last.result.val) = 2

-----------------------------------------------------------------------------
\* the latest call is an increment of `amount` that directly follows, on the
\* same key, increment(key, 10, 0, 20) made while the key did not exist
SecondIncrement(amount) ==
    /\ nops > 1
    /\ last.op = "increment"
    /\ last.args.amount = amount
    /\ last.prev.op = "increment"
    /\ last.prev.absent
    /\ last.prev.args.key = last.args.key
    /\ last.prev.args.amount = 10
    /\ last.prev.args.initial = 0
    /\ last.prev.args.expiration = 20

\* C27 as stated: increment(key, 10, 0, 20) on a key that does not exist
\* returns 0, and the increment by 1 that follows on the same key returns 10
C27_SecondIncrementReturnsTen ==
    SecondIncrement(1) => /\ last.prev.result = Ok(0)
                          /\ last.result = Ok(10)

\* C27: increment(key, 10, 0, 20) on a key that does not exist returns 0, the
\* initial value, and the increment by 1 that follows on the same key returns
\* 1; an increment by 10 that follows returns 10
C27_SecondIncrementAddsToInitial ==
    \A amount \in SessionAmounts :
        SecondIncrement(amount) => /\ last.prev.result = Ok(0)
                                   /\ last.result = Ok(amount)

C27_Witness ==
    /\ SecondIncrement(1)
    /\ last.prev.result = Ok(0)
    /\ last.result = Ok(1)

-----------------------------------------------------------------------------
\* the latest call is increment or decrement, and the key was absent or held
\* a decimal number when it was made
CounterCall ==
    /\ nops > 0
    /\ last.op \in {"increment", "decrement"}
    /\ (Before = NoItem \/ IsDec(Before[1].value))

\* what the call is to return: the initial value for an absent key, without
\* the amount; the stored number plus the amount for increment; the stored
\* number minus the amount, or 0 when the amount is larger, for decrement
CounterValue ==
    IF Before = NoItem THEN last.args.initial
    ELSE LET v == ParseDec(Before[1].value)
         IN  IF last.op = "increment" THEN v + last.args.amount
             ELSE IF last.args.amount > v THEN 0
             ELSE v - last.args.amount

\* C28: increment on an absent key stores and returns the initial value
\* without adding the amount; on a key holding v increment returns v + amount
\* and decrement returns v - amount, or 0 when amount > v; the number returned
\* is the 8-byte big-endian value of the matched response
C28_CounterArithmetic ==
    CounterCall =>
        /\ last.result = Ok(CounterValue)
        /\ Decisive.opaque = last.opaque
        /\ Len(Decisive.value) = 8
        /\ last.result.val = BigEndianAt(Decisive.value, 1, 8)
        /\ After # NoItem
        /\ After[1].value = FormatDec(CounterValue)

\* a decrement by more than the counter holds, after an increment that
\* created the counter with its initial value
C28_Witness ==
    /\ CounterCall
    /\ nops > 1
    /\ last.op = "decrement"
    /\ Before # NoItem
    /\ last.args.amount > ParseDec(Before[1].value)
    /\ ParseDec(Before[1].value) > 0
    /\ last.result = Ok(0)
    /\ last.prev.op = "increment"
    /\ last.prev.absent
    /\ last.prev.args.amount # last.prev.args.initial
    /\ last.prev.result = Ok(last.prev.args.initial)

-----------------------------------------------------------------------------
\* the latest call reads, with get or getk, the key that the call before it set
ReadsWhatWasSet ==
    /\ nops > 1
    /\ last.op \in {"get", "getk"}
    /\ last.prev.op = "set"
    /\ last.prev.result.tag = "Ok"
    /\ last.prev.args.key = last.args.key

\* C29: after set(key, value, flags, expiration), get(key) returns exactly
\* (value, flags), the flags being the first four extras bytes of the
\* response, big-endian; getk returns the key as well; get or getk of a key
\* that does not exist returns the error KeyNotFound
C29_GetReturnsWhatSetStored ==
    /\ ReadsWhatWasSet =>
           /\ Decisive.opaque = last.opaque
           /\ Len(Decisive.extra) >= 4
           /\ last.result.tag = "Ok"
           /\ last.result.val.value = last.prev.args.value
           /\ last.result.val.flags = last.prev.args.flags
           /\ last.result.val.flags = BigEndianAt(Decisive.extra, 1, 4)
           /\ last.op = "get" => DOMAIN last.result.val = {"value", "flags"}
           /\ last.op = "getk" => /\ DOMAIN last.result.val = {"key", "value", "flags"}
                                  /\ last.result.val.key = last.args.key
    /\ (nops > 0 /\ last.op \in {"get", "getk"} /\ Before = NoItem) =>
           /\ last.result.tag = "Err"
           /\ last.result.status = "KeyNotFound"

\* getk returned key, value and flags of the set before it, which replaced
\* an item of another value
C29_Witness ==
    /\ ReadsWhatWasSet
    /\ last.op = "getk"
    /\ ~last.prev.absent
    /\ last.result = Ok([key |-> last.args.key, value |-> last.prev.args.value,
                         flags |-> last.prev.args.flags])
    /\ last.prev.args.flags = 2

-----------------------------------------------------------------------------
\* the responses to the latest call's own requests that are still unread
\* when it returns
UnreadOfBatch ==
    SelectSeq(last.st.stream, LAMBDA r : r.rid > last.st0.reqs)

\* C30: when a multi-key operation returns, Ok or Err, every response the
\* server sent for its batch, the per-key responses and the Noop response,
\* has been read; none is left for a later operation
C30_BatchFullyConsumed ==
    (last.kind = "multi" /\ last.result.tag \in {"Ok", "Err"}) =>
        UnreadOfBatch = <<>>

-----------------------------------------------------------------------------
\* the keys a call was given
AskedKeys == { last.args.keys[i] : i \in 1..Len(last.args.keys) }

\* the response is an answer to a request of the latest call
OfThisCall(r) == r.rid > last.st0.reqs

\* C31: whatever was done on the connection before, every key in the map
\* that get_multi(keys) returns is one of keys and its entry is the server's
\* answer to a request of that call, and the Noop response the call ends on
\* answers the Noop of that call, not one of an earlier batch
C31_GetMultiEndsOnOwnNoop ==
    (last.op = "get_multi" /\ last.result.tag = "Ok") =>
        /\ DOMAIN last.result.val \subseteq AskedKeys
        /\ \A k \in DOMAIN last.result.val :
               \E i \in 1..Len(Got) :
                   /\ OfThisCall(Got[i])
                   /\ Got[i].key = k
                   /\ last.result.val[k].value = Got[i].value
        /\ Decisive.command = "Noop"
        /\ OfThisCall(Decisive)

-----------------------------------------------------------------------------
\* the latest call is a simple operation, noop included, that returned Ok or
\* the error of a status
SimpleReturned ==
    /\ (last.kind = "simple" \/ last.op = "noop")
    /\ last.result.tag \in {"Ok", "Err"}

-----------------------------------------------------------------------------
\* the response ends the read loop of the waiting call: for a simple
\* operation it carries the call's opaque, for a multi-key operation it is a
\* Noop response or has an error status
EndsWait(r) ==
    IF last.op = "set" THEN r.opaque = last.opaque
    ELSE r.command = "Noop" \/ r.status \notin {"NoError", "KeyNotFound"}

EndIn(responses) == \E i \in 1..Len(responses) : EndsWait(responses[i])

\* the call returned on the response it read last and on none before it, or
\* failed on a closed stream that held no such response
ReturnsOnlyOnAnswer ==
    /\ last.pc = "returned" =>
           /\ last.read # <<>>
           /\ EndsWait(last.read[Len(last.read)])
           /\ ~EndIn(SubSeq(last.read, 1, Len(last.read) - 1))
           /\ last.result.tag \in {"Ok", "Err"}
    /\ last.pc = "io" =>
           /\ closed["s1"]
           /\ ~EndIn(last.read)
           /\ last.result.tag = "io"
    /\ last.pc = "reading" => ~EndIn(last.read)

AnswerComing == EndIn(stream["s1"] \o last.pending) \/ closed["s1"]

\* C33: a driver operation returns, with a result or an I/O error, once the
\* server sends the response that ends its read loop (the one with its
\* opaque for a simple operation, a Noop or an error status for a multi-key
\* operation) or the stream is closed; it discards any number of other
\* responses before that, and it returns on nothing else: with no such
\* response and an open stream it keeps reading
C33_ReturnsWhenAnswered ==
    /\ []ReturnsOnlyOnAnswer
    /\ AnswerComing ~> (last.pc # "reading")
    /\ []((last.pc = "reading" /\ ~AnswerComing) => [](~closed["s1"] => last.pc = "reading"))

\* a simple operation returned after discarding two responses of another
\* opaque, one of them an error
C33_Witness ==
    /\ last.kind = "wait"
    /\ last.op = "set"
    /\ last.pc = "returned"
    /\ Len(last.read) >= 3
    /\ \E i \in 1..(Len(last.read) - 1) : last.read[i].status = "Busy"
    /\ last.result = Ok(<<>>)

-----------------------------------------------------------------------------
\* the counter a single increment with the call's arguments for key k leaves
\* and returns, given what the key held when the call was made
IncrementOf(k) ==
    IF last.st0.store[k] = NoItem THEN last.args.kv[k].initial
    ELSE ParseDec(last.st0.store[k][1].value) + last.args.kv[k].amount

\* the server's response to the request that the latest call wrote for key k
AnswerFor(k) ==
    LET j == CHOOSE j \in 1..Len(last.st.written) : last.st.written[j].key = k
        i == CHOOSE i \in 1..Len(Avail) :
                 /\ OfThisCall(Avail[i])
                 /\ Avail[i].opaque = last.st.written[j].header.opaque
    IN  Avail[i]

\* C34: when increment_multi returns Ok its map has exactly one entry per
\* input key, the entry is the counter value in the server's response to
\* that key's request, and each key is left as a single increment leaves it:
\* an absent key holds initial, a numeric key its value plus amount
C34_IncrementMultiReturnsEveryCounter ==
    (last.op = "increment_multi" /\ last.result.tag = "Ok") =>
        /\ DOMAIN last.result.val = DOMAIN last.args.kv
        /\ \A k \in DOMAIN last.args.kv :
               /\ last.result.val[k] = BigEndianAt(AnswerFor(k).value, 1, 8)
               /\ last.result.val[k] = IncrementOf(k)
               /\ last.st.store[k] # NoItem
               /\ last.st.store[k][1].value = FormatDec(IncrementOf(k))

-----------------------------------------------------------------------------
\* C35: when several clients, each with a connection of its own, run the
\* loop 'cas := get_cas(k); set_cas(k, v, flags, exp, cas)' on the same key
\* at the same time, every set_cas call succeeds
C35_EverySetCasSucceeds ==
    (last.kind = "thread" /\ last.op = "set_cas") => last.result.tag = "Ok"

-----------------------------------------------------------------------------
\* on the connection to s the call wrote exactly one request, and it is
\* auth_start("PLAIN", NUL username NUL password)
OnePlainExchange(s) ==
    LET w == last.sts[s].written
    IN  /\ Len(w) = 1
        /\ w[1].header.command = "SaslAuthenticate"
        /\ w[1].key = PLAIN
        /\ w[1].value = <<0>> \o last.o_sasl[1].username \o <<0>> \o last.o_sasl[1].password
        /\ Len(last.sts[s].got) = 1
        /\ last.sts[s].got[1].opaque = w[1].header.opaque
        /\ last.sts[s].got[1].status = "NoError"
        /\ last.sts[s].stream = <<>>

\* C36: when connect_sasl returns a Client, every connection the Client
\* holds has carried exactly one auth_start("PLAIN", NUL username NUL
\* password) exchange, which ended in Succeeded, and nothing else; an
\* exchange that ends in Continue, Failed or an error makes the construction
\* fail
C36_EveryConnectionAuthenticated ==
    last.op = "connect_sasl" =>
        /\ last.result.tag = "Ok" =>
               /\ last.held = {last.args.keys[i].addr : i \in 1..Len(last.args.keys)}
               /\ \A s \in last.held : last.auth[s] = "Succeeded" /\ OnePlainExchange(s)
        /\ (\E s \in Addrs : last.auth[s] \in {"Continue", "Failed", "Err"}) =>
               /\ last.result.tag # "Ok"
               /\ last.held = {}

-----------------------------------------------------------------------------
\* what the plain operation returned, seen in what its CAS variant returned:
\* the CAS variant returns the response header's CAS as well
SameButForCas(plain, variant, resp) ==
    /\ variant.tag = plain.tag
    /\ variant.status = plain.status
    /\ variant.tag = "Ok" =>
           IF last.op \in {"set", "add"}
           THEN plain.val = <<>> /\ variant.val = resp.cas
           ELSE /\ DOMAIN variant.val = DOMAIN plain.val \cup {"cas"}
                /\ \A f \in DOMAIN plain.val : variant.val[f] = plain.val[f]
                /\ variant.val.cas = resp.cas

\* C37: set_cas with cas 0 writes the request that set writes, add_cas the
\* one that add writes, get_cas and getk_cas the ones that get and getk
\* write, given the same opaque; they read the same responses, return Ok and
\* the error of a status on the same responses and leave the same item, and
\* differ only in returning the response header's CAS
C37_CasVariantsMatchPlain ==
    last.kind = "both" =>
        /\ last.cas_st.written = last.st.written
        /\ Len(last.st.written) = 1
        /\ last.st.written[1].header.cas = 0
        /\ last.cas_st.got = last.st.got
        /\ last.cas_st.stream = last.st.stream
        /\ last.cas_st.store = last.st.store
        /\ Got # <<>>
        /\ SameButForCas(last.result, last.cas_result, Decisive)

\* add and add_cas were both refused, with a response of another call read
\* on the way
C37_Witness ==
    /\ last.kind = "both"
    /\ last.op = "add"
    /\ Len(Got) >= 2
    /\ last.result.tag = "Err"
    /\ last.cas_result = last.result
    /\ last.result.status = "KeyExists"

-----------------------------------------------------------------------------
ResponsePacketRead ==
    /\ last.kind = "packet"
    /\ last.op = "ResponsePacket::read_from"
    /\ last.args.magic = MAGIC_RESPONSE

\* C38: reading a response packet whose header has a valid magic, opcode,
\* data type and status returns a packet or an error and never aborts the
\* caller: an error where extras_len + key_len exceeds body_len or the reader
\* holds fewer than body_len bytes, and otherwise a packet of extras_len,
\* key_len and body_len - extras_len - key_len bytes of extras, key and value
C38_ReadReturnsPacketOrError ==
    ResponsePacketRead =>
        /\ last.read.tag \in {"Ok", "Err"}
        /\ last.args.extra_len + last.args.key_len > last.args.body_len
               => last.read.tag = "Err"
        /\ last.args.given < last.args.body_len => last.read.tag = "Err"
        /\ last.read.tag = "Ok" =>
               /\ last.read.extra = last.args.extra_len
               /\ last.read.key = last.args.key_len
               /\ last.read.value
                      = last.args.body_len - last.args.extra_len - last.args.key_len
               /\ last.read.consumed = 24 + last.args.body_len

\* the same with the lengths of the header consistent: extras and key fit in
\* the body
C38_ConsistentLengthsRead ==
    (ResponsePacketRead
         /\ last.args.extra_len + last.args.key_len <= last.args.body_len) =>
        /\ last.read.tag = (IF last.args.given < last.args.body_len THEN "Err" ELSE "Ok")
        /\ last.read.tag = "Ok" =>
               /\ last.read.extra = last.args.extra_len
               /\ last.read.key = last.args.key_len
               /\ last.read.value
                      = last.args.body_len - last.args.extra_len - last.args.key_len
               /\ last.read.consumed = 24 + last.args.body_len

\* the read of a header whose lengths do not fit ends in the panic of split_to
C38_InconsistentLengthsPanic ==
    (ResponsePacketRead
         /\ last.args.extra_len + last.args.key_len > last.args.body_len) =>
        last.read.tag = "panic"

====
